---- MODULE Spec2Model ----
(***************************************************************************)
(* Block Preventer Bridge: message scheduling and distribution engine.    *)
(*                                                                         *)
(* The module holds these state machines over one set of variables:       *)
(*   SpecGQ   - GlobalQueueService.schedule_recipients applied to one     *)
(*              persisted state, once as a batch and once request by      *)
(*              request (global_queue_service.py);                        *)
(*   SpecDist - DistributionService's four strategies as functions of     *)
(*              their inputs (distribution_service.py);                   *)
(*   SpecSeq  - distribute on one recipient list, as one request and as   *)
(*              single-recipient requests;                                *)
(*   Spec     - the running service: send_open_chat requests, the         *)
(*              background sweep, block detection, package updates        *)
(*              (message_service.py, block_detection_service.py);         *)
(*   SpecSend, SpecCancel - the requests alone, without and with the      *)
(*              deletion of the queue;                                    *)
(*   SpecSweep, SpecAbort - the processor alone on a backlog, without     *)
(*              and with a transport reply that raises;                   *)
(*   SpecCool - CooldownService.calculate_cooldown as a function of its   *)
(*              inputs (cooldown_service.py);                             *)
(*   SpecReply - the processor with reply-chat requests and the           *)
(*              conversation routing table;                               *)
(*   SpecChat - the send-sequence route and its per-chat locks            *)
(*              (zentra_messages.py);                                     *)
(*   SpecIso  - distribution and scheduling on tables two packages        *)
(*              share;                                                    *)
(*   SpecCreate - every path that creates queue rows, scheduled           *)
(*              messages included (scheduling_service.py);                *)
(*   SpecSchedule - the scheduler with requests that schedule and cancel; *)
(*   SpecLive, SpecLiveSweep - the processor's cycle under fairness, with *)
(*              and without a transport reply that raises;                *)
(*   SpecResume - the processor with auto_resume_profiles and manual      *)
(*              status changes.                                           *)
(* Times are integer seconds.                                             *)
(***************************************************************************)
EXTENDS Integers, Sequences, FiniteSets, TLC

\* ------------------------------------------------------------------ bounds
MaxPerProfile == 2
MaxPrior == 1
MaxSent == 2
MaxRecips == 3

\* ------------------------------------------------------------- vocabulary
None == 0 - 1
ProfileOrder == <<"A", "B", "C">>
Profiles == {ProfileOrder[i] : i \in DOMAIN ProfileOrder}
Cooldowns == {60, 120}
DefaultCooldown == 600

VARIABLES
  \* SpecGQ: now, active profile ids, last_message_at, cooldown per profile,
  \* the distribution, the queue of the batch run, the queue of the
  \* request-by-request run, the recipients still to request, batch done
  gNow, gActive, gLastMsg, gCd, gDist, gBatchQ, gSingleQ, gTodo, gBatchDone,
  \* SpecDist: the inputs of distribute and its outcome; SpecSeq: the run of
  \* the same recipients as single-recipient requests
  dIn, dOut, dSeq,
  \* SpecCool: the inputs of calculate_cooldown and its result
  cIn, cOut,
  \* SpecIso: the tables two packages share, and the first package run alone
  iso,
  \* SpecChat: the lock table of send_sequence, its requests, the transport's log
  chatLocks, seqReqs, seqLog,
  \* Spec: the clock, the Package row, the Profile rows with their
  \* statistics, the message_queue rows, the messages rows, the open
  \* send_open_chat requests, the background sweep, the last transport call
  now, pkg, profiles, queue, messages, reqs, sweep, lastDispatch,
  \* the conversation_routing rows (recipient -> profile) and the last
  \* reply-chat send
  routing, lastReply,
  \* the Alert rows of type profile_resumed
  resumeAlerts

varsGQ == <<gNow, gActive, gLastMsg, gCd, gDist, gBatchQ, gSingleQ, gTodo, gBatchDone>>
varsDist == <<dIn, dOut, dSeq>>
varsCool == <<cIn, cOut>>
varsIso == <<iso>>
varsChat == <<chatLocks, seqReqs, seqLog>>
varsRest == <<varsCool, varsIso, varsChat>>
varsMain ==
  <<now, pkg, profiles, queue, messages, reqs, sweep, lastDispatch, routing, lastReply,
    resumeAlerts>>
vars == <<varsGQ, varsDist, varsMain, varsRest>>

\* ------------------------------------------------------------ arithmetic
MaxOf(S) == CHOOSE x \in S : \A y \in S : y <= x
MinOf(S) == CHOOSE x \in S : \A y \in S : x <= y
Max2(a, b) == IF a >= b THEN a ELSE b
Min2(a, b) == IF a <= b THEN a ELSE b

\* func.max(scheduled_send_at) over the waiting items of the profiles ids; None for no row
MaxWaitingAt(q, ids) ==
  LET S == {q[i].at : i \in {k \in DOMAIN q : q[k].status = "waiting" /\ q[k].profile \in ids}}
  IN IF S = {} THEN None ELSE MaxOf(S)

\* ------------------------------------------------- GlobalQueueService
\* get_global_next_slot without the look at last_message_at
GetGlobalNextSlotNoLastSent(q, activeIds, lastMsg, p, cooldown_seconds, tnow) ==
  LET num_profiles == Max2(Cardinality(activeIds), 1)
      inter_profile_gap == cooldown_seconds \div num_profiles
      last_for_profile == MaxWaitingAt(q, {p})
      profile_earliest ==
        IF last_for_profile # None /\ last_for_profile > tnow
          THEN last_for_profile + cooldown_seconds
        ELSE tnow
      global_last == MaxWaitingAt(q, activeIds)
      global_earliest ==
        IF global_last # None /\ global_last > tnow
          THEN global_last + inter_profile_gap
        ELSE tnow
      send_at == Max2(profile_earliest, global_earliest)
  IN IF send_at < tnow THEN tnow ELSE send_at

\* get_global_next_slot: the slot for profile p with the queue q as persisted,
\* activeIds the ids of the package's active profiles, lastMsg[p] = last_message_at
GetGlobalNextSlot(q, activeIds, lastMsg, p, cooldown_seconds, tnow) ==
  LET num_profiles == Max2(Cardinality(activeIds), 1)
      inter_profile_gap == cooldown_seconds \div num_profiles
      last_for_profile == MaxWaitingAt(q, {p})
      after_last_sent == lastMsg[p] + cooldown_seconds
      profile_earliest ==
        IF last_for_profile # None /\ last_for_profile > tnow
          THEN last_for_profile + cooldown_seconds
        ELSE IF lastMsg[p] # None /\ after_last_sent > tnow
          THEN after_last_sent
        ELSE tnow
      global_last == MaxWaitingAt(q, activeIds)
      global_earliest ==
        IF global_last # None /\ global_last > tnow
          THEN global_last + inter_profile_gap
        ELSE tnow
      send_at == Max2(profile_earliest, global_earliest)
  IN IF send_at < tnow THEN tnow ELSE send_at

\* _interleave_recipients: dist is the distribution dict in key order, a
\* sequence of <<profile, recipients>>; the result is A1, B1, C1, A2, ...
MaxRecipients(dist) ==
  IF dist = <<>> THEN 0 ELSE MaxOf({Len(dist[k][2]) : k \in DOMAIN dist})

RECURSIVE InterleaveRound(_, _, _)
InterleaveRound(dist, i, k) ==
  IF k > Len(dist) THEN <<>>
  ELSE (IF i <= Len(dist[k][2]) THEN << <<dist[k][1], dist[k][2][i]>> >> ELSE <<>>)
       \o InterleaveRound(dist, i, k + 1)

RECURSIVE InterleaveFrom(_, _)
InterleaveFrom(dist, i) ==
  IF i > MaxRecipients(dist) THEN <<>>
  ELSE InterleaveRound(dist, i, 1) \o InterleaveFrom(dist, i + 1)

\* the pairs profile by profile: all of the first profile's, then the next's
RECURSIVE InterleaveByProfile(_)
InterleaveByProfile(dist) ==
  IF dist = <<>> THEN <<>>
  ELSE [i \in DOMAIN dist[1][2] |-> <<dist[1][1], dist[1][2][i]>>]
       \o InterleaveByProfile(Tail(dist))

InterleaveRecipients(dist) == InterleaveFrom(dist, 1)

\* the MessageQueue row schedule_recipients adds for one (profile, recipient)
NewQueueItem(p, r, send_at, cd, n) ==
  [profile |-> p, recipient |-> r, status |-> "waiting", at |-> send_at,
   new |-> TRUE, cd |-> cd, n |-> n]

\* cooldown_per_profile.get(profile_id_str, 600)
CooldownOf(cds, p) == IF p \in DOMAIN cds THEN cds[p] ELSE DefaultCooldown

\* the loop of schedule_recipients over the interleaved pairs: each item is
\* flushed before the next slot is computed
RECURSIVE ScheduleLoop(_, _, _, _, _, _)
ScheduleLoop(q, pairs, activeIds, lastMsg, cds, tnow) ==
  IF pairs = <<>> THEN q
  ELSE LET p == pairs[1][1]
           cooldown == CooldownOf(cds, p)
           send_at == GetGlobalNextSlot(q, activeIds, lastMsg, p, cooldown, tnow)
           item == NewQueueItem(p, pairs[1][2], send_at, cooldown,
                                Max2(Cardinality(activeIds), 1))
       IN ScheduleLoop(Append(q, item), Tail(pairs), activeIds, lastMsg, cds, tnow)

\* the same loop with every slot computed from the queue as it was on entry
RECURSIVE ScheduleLoopNoFlush(_, _, _, _, _, _, _)
ScheduleLoopNoFlush(q0, q, pairs, activeIds, lastMsg, cds, tnow) ==
  IF pairs = <<>> THEN q
  ELSE LET p == pairs[1][1]
           cooldown == CooldownOf(cds, p)
           send_at == GetGlobalNextSlot(q0, activeIds, lastMsg, p, cooldown, tnow)
           item == NewQueueItem(p, pairs[1][2], send_at, cooldown,
                                Max2(Cardinality(activeIds), 1))
       IN ScheduleLoopNoFlush(q0, Append(q, item), Tail(pairs), activeIds, lastMsg, cds, tnow)

ScheduleRecipientsNoFlush(q, dist, activeIds, lastMsg, cds, tnow) ==
  ScheduleLoopNoFlush(q, q, InterleaveRecipients(dist), activeIds, lastMsg, cds, tnow)

\* schedule_recipients
ScheduleRecipients(q, dist, activeIds, lastMsg, cds, tnow) ==
  ScheduleLoop(q, InterleaveRecipients(dist), activeIds, lastMsg, cds, tnow)

\* ------------------------------------------------------------ SpecGQ
\* One persisted state (prior waiting items, last_message_at, active
\* profiles), one 'tnow', one distribution: scheduled as one batch into
\* gBatchQ and recipient by recipient, in interleaved order, into gSingleQ.
GNow == 1000
PriorTimes == {GNow - 10, GNow + 30}
LastSentTimes == {None, GNow - 30}
ActiveSets == {Profiles, Profiles \ {"C"}, {"A"}, {}}
CooldownMaps ==
  {[p \in Profiles |-> 60], [p \in Profiles |-> 120],
   [p \in Profiles |-> IF p = "B" THEN 120 ELSE 60]}

PriorItem(p, t) ==
  [profile |-> p, recipient |-> 0, status |-> "waiting", at |-> t,
   new |-> FALSE, cd |-> 0, n |-> 0]

PriorQueues ==
  {<<>>} \cup
  (IF MaxPrior >= 1 THEN {<<PriorItem(p, t)>> : p \in Profiles, t \in PriorTimes} ELSE {}) \cup
  (IF MaxPrior >= 2
     THEN {<<PriorItem("A", GNow + 30), PriorItem(p, t)>> : p \in Profiles, t \in PriorTimes}
     ELSE {})

\* recipients of the k-th profile are numbered 10*k + 1, 10*k + 2, ...
RecipientsOf(k, c) == [i \in 1..c |-> 10 * k + i]

\* a distribution dict: profiles in order, the empty lists filtered out
RECURSIVE DistOf(_, _)
DistOf(counts, k) ==
  IF k > Len(ProfileOrder) THEN <<>>
  ELSE (IF counts[k] > 0 THEN << <<ProfileOrder[k], RecipientsOf(k, counts[k])>> >> ELSE <<>>)
       \o DistOf(counts, k + 1)

InitGQVars ==
  /\ gNow = GNow
  /\ gActive \in ActiveSets
  /\ gLastMsg \in [Profiles -> LastSentTimes]
  /\ gCd \in CooldownMaps
  /\ \E counts \in [DOMAIN ProfileOrder -> 0..MaxPerProfile] : gDist = DistOf(counts, 1)
  /\ gBatchQ \in PriorQueues
  /\ gSingleQ = gBatchQ
  /\ gTodo = InterleaveRecipients(gDist)
  /\ gBatchDone = FALSE

\* one request carrying the whole distribution
BatchRequest ==
  /\ ~gBatchDone
  /\ gBatchQ' = ScheduleRecipients(gBatchQ, gDist, gActive, gLastMsg, gCd, gNow)
  /\ gBatchDone' = TRUE
  /\ UNCHANGED <<gNow, gActive, gLastMsg, gCd, gDist, gSingleQ, gTodo>>
  /\ UNCHANGED <<varsDist, varsMain, varsRest>>

\* one request carrying the next recipient of the global order; the
\* request-by-request run is replayed after the batch run
SingleRequest ==
  /\ gBatchDone
  /\ gTodo # <<>>
  /\ LET p == gTodo[1][1]
         r == gTodo[1][2]
     IN gSingleQ' = ScheduleRecipients(gSingleQ, << <<p, <<r>>>> >>, gActive, gLastMsg, gCd, gNow)
  /\ gTodo' = Tail(gTodo)
  /\ UNCHANGED <<gNow, gActive, gLastMsg, gCd, gDist, gBatchQ, gBatchDone>>
  /\ UNCHANGED <<varsDist, varsMain, varsRest>>


\* the scheduled_send_at values of the items the scheduling created for p, in creation order
RECURSIVE TimesOf(_, _)
TimesOf(q, p) ==
  IF q = <<>> THEN <<>>
  ELSE (IF q[1].new /\ q[1].profile = p THEN <<q[1].at>> ELSE <<>>) \o TimesOf(Tail(q), p)

GQFinished == gBatchDone /\ gTodo = <<>>

\* C1: request-shape independence. Once the batch and all the single
\* requests have run from the same persisted state with the same tnow, every
\* profile has the same ordered sequence of scheduled_send_at in both queues.
C1_ShapeIndependence ==
  GQFinished => \A p \in Profiles : TimesOf(gBatchQ, p) = TimesOf(gSingleQ, p)

\* C1 witness: both shapes have run on a distribution over three profiles with
\* two recipients each, and the timeline is not flat (some slot is after tnow).
C1_Witness ==
  /\ GQFinished
  /\ Len(gDist) = 3
  /\ \A k \in DOMAIN gDist : Len(gDist[k][2]) >= 2
  /\ \E i \in DOMAIN gBatchQ : gBatchQ[i].new /\ gBatchQ[i].at > gNow
  /\ \E p \in Profiles : Len(TimesOf(gSingleQ, p)) = 2 /\ TimesOf(gSingleQ, p)[1] # TimesOf(gSingleQ, p)[2]

\* C3: of the items the scheduler creates, each lies at least cooldown /
\* active profile count after every item it queued earlier for another
\* active profile, and at least cooldown after every item it queued earlier
\* for the same profile (3 profiles, cooldown 120: gaps >= 40 and >= 120).
C3_GlobalSpacing ==
  \A i \in DOMAIN gBatchQ : \A j \in DOMAIN gBatchQ :
    (j < i /\ gBatchQ[i].new /\ gBatchQ[j].new
       /\ gBatchQ[i].profile \in gActive /\ gBatchQ[j].profile \in gActive) =>
      IF gBatchQ[j].profile = gBatchQ[i].profile
        THEN gBatchQ[i].at - gBatchQ[j].at >= gBatchQ[i].cd
        ELSE gBatchQ[i].at - gBatchQ[j].at >= gBatchQ[i].cd \div gBatchQ[i].n

\* the rows the scheduling call created, in creation order
NewRows(q) == SelectSeq(q, LAMBDA row : row.new)

\* the place of a created row in the distribution: its profile's position
\* among the keys and its recipient's position in the profile's list
KeyPos(dist, row) == CHOOSE k \in DOMAIN dist : dist[k][1] = row.profile
ListPos(dist, row) ==
  CHOOSE i \in DOMAIN dist[KeyPos(dist, row)][2] : dist[KeyPos(dist, row)][2][i] = row.recipient

\* C30: the batch schedules every (profile, recipient) pair of the
\* distribution exactly once, round by round: every profile's 1st recipient
\* in key order, then every profile's 2nd, a profile that has run out being
\* skipped; so a profile's recipients keep their order.
C30_InterleaveOrder ==
  gBatchDone =>
    LET L == NewRows(gBatchQ)
    IN /\ \A k \in DOMAIN gDist : \A i \in DOMAIN gDist[k][2] :
            Cardinality({j \in DOMAIN L : /\ L[j].profile = gDist[k][1]
                                         /\ L[j].recipient = gDist[k][2][i]}) = 1
       /\ \A j \in DOMAIN L : \E k \in DOMAIN gDist : \E i \in DOMAIN gDist[k][2] :
            L[j].profile = gDist[k][1] /\ L[j].recipient = gDist[k][2][i]
       /\ \A a, b \in DOMAIN L :
            a < b => \/ ListPos(gDist, L[a]) < ListPos(gDist, L[b])
                     \/ /\ ListPos(gDist, L[a]) = ListPos(gDist, L[b])
                        /\ KeyPos(gDist, L[a]) < KeyPos(gDist, L[b])

\* the batch has run on A: 2, B: 1, C: 2 recipients: B runs out after the
\* first round and the order is A1, B1, C1, A2, C2
C30_Witness ==
  /\ gBatchDone
  /\ Len(gDist) = 3
  /\ [j \in DOMAIN NewRows(gBatchQ) |-> NewRows(gBatchQ)[j].recipient] = <<11, 21, 31, 12, 32>>

\* C22: in a cold package (no waiting row at all) the first slot given to
\* an active profile is exactly the time of the call, whenever the profile
\* last sent.
C22_ColdStartNow ==
  (/\ gBatchDone /\ gBatchQ # <<>>
   /\ gBatchQ[1].new /\ gBatchQ[1].profile \in gActive)
    => gBatchQ[1].at = gNow

\* C22 as the code has it: in a cold package the first slot given to an
\* active profile is the time of the call when the profile has never sent
\* or sent at least its cooldown ago, and its last send + cooldown otherwise.
C22_ColdStartAfterLastSend ==
  (/\ gBatchDone /\ gBatchQ # <<>>
   /\ gBatchQ[1].new /\ gBatchQ[1].profile \in gActive)
    => LET last == gLastMsg[gBatchQ[1].profile]
       IN gBatchQ[1].at =
            IF last # None /\ last + gBatchQ[1].cd > gNow THEN last + gBatchQ[1].cd ELSE gNow

\* a cold package has scheduled an active profile that sent 30 s ago: its
\* first slot is the rest of the cooldown away
C22_Witness ==
  /\ gBatchDone /\ gBatchQ # <<>>
  /\ gBatchQ[1].new /\ gBatchQ[1].profile \in gActive
  /\ gLastMsg[gBatchQ[1].profile] = gNow - 30
  /\ gBatchQ[1].at = gNow - 30 + gBatchQ[1].cd
  /\ \E i \in DOMAIN gBatchQ :
       gLastMsg[gBatchQ[i].profile] = None /\ gBatchQ[i].profile \in gActive

\* ------------------------------------------------- DistributionService
\* A profile with its statistics is a record; pws is the list of active
\* profiles with stats in query order, pend[k] the waiting-item count of the
\* k-th, recips the recipient list, dist[k] the list assigned to the k-th.

\* _get_profile_limit for max_messages_per_day: the profile's override, else the package default
DailyLimit(prof, pkgDaily) ==
  IF prof.max_messages_per_day # None THEN prof.max_messages_per_day ELSE pkgDaily

EmptyDist(pws) == [k \in DOMAIN pws |-> <<>>]

\* the capacity test every strategy uses: sent_today + pending + len(distribution[pid]) < daily_limit
HasRoom(pws, pend, pkgDaily, dist, k) ==
  pws[k].sent_today + pend[k] + Len(dist[k]) < DailyLimit(pws[k], pkgDaily)

RECURSIVE SumLoads(_, _, _)
SumLoads(pws, pend, k) ==
  IF k > Len(pws) THEN 0 ELSE pws[k].sent_today + pend[k] + SumLoads(pws, pend, k + 1)

\* the inner loop of _round_robin: the first alternative (idx + j + 1) % n with room, 0 if none
RECURSIVE FirstAlternative(_, _, _, _, _, _)
FirstAlternative(pws, pend, pkgDaily, dist, idx0, j) ==
  IF j >= Len(pws) THEN 0
  ELSE LET alt == ((idx0 + j + 1) % Len(pws)) + 1
       IN IF HasRoom(pws, pend, pkgDaily, dist, alt) THEN alt
          ELSE FirstAlternative(pws, pend, pkgDaily, dist, idx0, j + 1)

RECURSIVE RoundRobinLoop(_, _, _, _, _, _, _)
RoundRobinLoop(pws, pend, pkgDaily, recips, i, start_offset, dist) ==
  IF i >= Len(recips) THEN dist
  ELSE LET idx0 == (start_offset + i) % Len(pws)
           idx == idx0 + 1
           alt == FirstAlternative(pws, pend, pkgDaily, dist, idx0, 0)
           next == IF HasRoom(pws, pend, pkgDaily, dist, idx)
                     THEN [dist EXCEPT ![idx] = Append(@, recips[i + 1])]
                   ELSE IF alt # 0
                     THEN [dist EXCEPT ![alt] = Append(@, recips[i + 1])]
                   ELSE dist
       IN RoundRobinLoop(pws, pend, pkgDaily, recips, i + 1, start_offset, next)

\* _round_robin as it was before the start offset: always from the first profile
RoundRobinNoOffset(pws, pend, pkgDaily, recips) ==
  IF Len(pws) = 0 THEN EmptyDist(pws)
  ELSE RoundRobinLoop(pws, pend, pkgDaily, recips, 0, 0, EmptyDist(pws))

\* _round_robin
RoundRobin(pws, pend, pkgDaily, recips) ==
  IF Len(pws) = 0 THEN EmptyDist(pws)
  ELSE RoundRobinLoop(pws, pend, pkgDaily, recips, 0,
                      SumLoads(pws, pend, 1) % Len(pws), EmptyDist(pws))

\* _random without the least-loaded fallback: only profiles with room are taken
RandomTargetsNoFallback(pws, pend, pkgDaily, dist) ==
  {k \in DOMAIN pws : HasRoom(pws, pend, pkgDaily, dist, k)}

\* _random: the shuffle puts any profile first, so a recipient goes to any
\* profile with room, and when none has room to a profile of least load
\* (min() returns the first least-loaded entry of the shuffled list)
RandomTargets(pws, pend, pkgDaily, dist) ==
  LET withRoom == {k \in DOMAIN pws : HasRoom(pws, pend, pkgDaily, dist, k)}
      Load(k) == pws[k].sent_today + pend[k] + Len(dist[k])
  IN IF withRoom # {} THEN withRoom
     ELSE {k \in DOMAIN pws : \A m \in DOMAIN pws : Load(k) <= Load(m)}


RECURSIVE RandomLoop(_, _, _, _, _, _)
RandomLoop(pws, pend, pkgDaily, recips, i, dists) ==
  IF i > Len(recips) THEN dists
  ELSE RandomLoop(pws, pend, pkgDaily, recips, i + 1,
         UNION {LET T == RandomTargets(pws, pend, pkgDaily, d)
                IN IF T = {} THEN {d}
                   ELSE {[d EXCEPT ![k] = Append(@, recips[i])] : k \in T}
                : d \in dists})

\* _random: the set of distributions the shuffles can produce
Random(pws, pend, pkgDaily, recips) ==
  RandomLoop(pws, pend, pkgDaily, recips, 1, {EmptyDist(pws)})

\* max(profile.weight_score, 1)
WeightOf(prof) == Max2(prof.weight_score, 1)

RECURSIVE TotalWeight(_, _)
TotalWeight(pws, k) ==
  IF k > Len(pws) THEN 0 ELSE WeightOf(pws[k]) + TotalWeight(pws, k + 1)

\* shares[pid] = max(1, int(len(recipients) * share)), share = weight / total_weight
WeightedShare(pws, recips, k) ==
  Max2(1, (Len(recips) * WeightOf(pws[k])) \div TotalWeight(pws, 1))

\* the first loop of _weighted with every slice taken from the start of
\* the recipient list
RECURSIVE WeightedSlicesFromStart(_, _, _, _, _, _, _)
WeightedSlicesFromStart(pws, pend, pkgDaily, recips, k, recipient_idx, dist) ==
  IF k > Len(pws) THEN [dist |-> dist, idx |-> recipient_idx]
  ELSE LET max_can_send ==
             Max2(0, DailyLimit(pws[k], pkgDaily) - pws[k].sent_today - pend[k])
           count == Min2(Min2(WeightedShare(pws, recips, k), Len(recips) - recipient_idx),
                         max_can_send)
       IN WeightedSlicesFromStart(pws, pend, pkgDaily, recips, k + 1, recipient_idx + count,
            [dist EXCEPT ![k] = SubSeq(recips, 1, count)])

\* the first loop of _weighted: consecutive slices of the recipient list,
\* each capped by the profile's remaining daily capacity
RECURSIVE WeightedSlices(_, _, _, _, _, _, _)
WeightedSlices(pws, pend, pkgDaily, recips, k, recipient_idx, dist) ==
  IF k > Len(pws) THEN [dist |-> dist, idx |-> recipient_idx]
  ELSE LET max_can_send ==
             Max2(0, DailyLimit(pws[k], pkgDaily) - pws[k].sent_today - pend[k])
           count == Min2(Min2(WeightedShare(pws, recips, k), Len(recips) - recipient_idx),
                         max_can_send)
       IN WeightedSlices(pws, pend, pkgDaily, recips, k + 1, recipient_idx + count,
            [dist EXCEPT ![k] = SubSeq(recips, recipient_idx + 1, recipient_idx + count)])

\* one run of the for loop inside the while loop of _weighted
RECURSIVE WeightedPass(_, _, _, _, _, _, _)
WeightedPass(pws, pend, pkgDaily, recips, k, recipient_idx, dist) ==
  IF k > Len(pws) \/ recipient_idx >= Len(recips) THEN [dist |-> dist, idx |-> recipient_idx]
  ELSE IF HasRoom(pws, pend, pkgDaily, dist, k)
    THEN WeightedPass(pws, pend, pkgDaily, recips, k + 1, recipient_idx + 1,
                      [dist EXCEPT ![k] = Append(@, recips[recipient_idx + 1])])
    ELSE WeightedPass(pws, pend, pkgDaily, recips, k + 1, recipient_idx, dist)

\* the while loop of _weighted: a pass that assigns nothing leaves the loop
\* condition unchanged, so the loop never ends (returns = FALSE)
RECURSIVE WeightedTopUp(_, _, _, _, _, _)
WeightedTopUp(pws, pend, pkgDaily, recips, recipient_idx, dist) ==
  IF recipient_idx >= Len(recips) THEN [dist |-> dist, returns |-> TRUE]
  ELSE IF \A k \in DOMAIN pws : ~HasRoom(pws, pend, pkgDaily, dist, k)
    THEN [dist |-> dist, returns |-> FALSE]
  ELSE LET r == WeightedPass(pws, pend, pkgDaily, recips, 1, recipient_idx, dist)
       IN WeightedTopUp(pws, pend, pkgDaily, recips, r.idx, r.dist)

\* _weighted (total_weight is at least the number of profiles, never 0)
Weighted(pws, pend, pkgDaily, recips) ==
  LET s == WeightedSlices(pws, pend, pkgDaily, recips, 1, 0, EmptyDist(pws))
  IN WeightedTopUp(pws, pend, pkgDaily, recips, s.idx, s.dist)

\* _smart: capacity = min(daily_remaining, hourly_remaining, three_hour_remaining),
\* the hourly and 3-hour limits being profile overrides or package defaults too
SmartCapacity(prof, pendk, package) ==
  LET p_daily == DailyLimit(prof, package.max_messages_per_day)
      p_hourly == IF prof.max_messages_per_hour # None
                    THEN prof.max_messages_per_hour ELSE package.max_messages_per_hour
      p_3hours == IF prof.max_messages_per_3hours # None
                    THEN prof.max_messages_per_3hours ELSE package.max_messages_per_3hours
  IN Min2(Max2(0, p_daily - prof.sent_today - pendk),
          Min2(Max2(0, p_hourly - prof.sent_hour - pendk),
               Max2(0, p_3hours - prof.sent_3hours - pendk)))

\* the risk penalty in tenths: 0.5 above 50, 0.8 above 20, else 1
RiskTenths(prof) ==
  IF prof.risk_score > 50 THEN 5 ELSE IF prof.risk_score > 20 THEN 8 ELSE 10

RECURSIVE ProductOfOtherLimits(_, _, _, _)
ProductOfOtherLimits(pws, package, k, m) ==
  IF m > Len(pws) THEN 1
  ELSE (IF m = k THEN 1 ELSE Max2(DailyLimit(pws[m], package.max_messages_per_day), 1))
       * ProductOfOtherLimits(pws, package, k, m + 1)

\* smart_score = weight * health/100 * capacity/p_daily * success/100 * penalty,
\* kept exact as an integer over the common denominator
\* 100 * 100 * 10 * (product of all p_daily)
SmartScore(pws, pend, package, k) ==
  WeightOf(pws[k]) * pws[k].health_score * SmartCapacity(pws[k], pend[k], package)
    * pws[k].success_rate * RiskTenths(pws[k]) * ProductOfOtherLimits(pws, package, k, 1)

RECURSIVE TotalScore(_, _, _, _)
TotalScore(pws, pend, package, k) ==
  IF k > Len(pws) THEN 0 ELSE SmartScore(pws, pend, package, k) + TotalScore(pws, pend, package, k + 1)

\* scored_profiles.sort(key=score, reverse=True): stable, equal scores keep query order
RECURSIVE SortedByScore(_, _, _, _)
SortedByScore(pws, pend, package, rest) ==
  IF rest = {} THEN <<>>
  ELSE LET best == CHOOSE k \in rest : \A m \in rest :
                     \/ SmartScore(pws, pend, package, k) > SmartScore(pws, pend, package, m)
                     \/ SmartScore(pws, pend, package, k) = SmartScore(pws, pend, package, m) /\ k <= m
       IN <<best>> \o SortedByScore(pws, pend, package, rest \ {best})

\* the proportional loop of _smart over the sorted profiles
RECURSIVE SmartSlices(_, _, _, _, _, _, _, _)
SmartSlices(pws, pend, package, recips, order, pos, recipient_idx, dist) ==
  IF pos > Len(order) \/ recipient_idx >= Len(recips) THEN [dist |-> dist, idx |-> recipient_idx]
  ELSE LET k == order[pos]
           share == Max2(1, (Len(recips) * SmartScore(pws, pend, package, k))
                              \div TotalScore(pws, pend, package, 1))
           count == Min2(Min2(share, SmartCapacity(pws[k], pend[k], package)),
                         Len(recips) - recipient_idx)
       IN SmartSlices(pws, pend, package, recips, order, pos + 1, recipient_idx + count,
            [dist EXCEPT ![k] = SubSeq(recips, recipient_idx + 1, recipient_idx + count)])

\* the "assign remaining" loop of _smart: the first sorted profile under its
\* capacity takes the next recipient; it stops when none is
RECURSIVE SmartRemaining(_, _, _, _, _, _, _)
SmartRemaining(pws, pend, package, recips, order, recipient_idx, dist) ==
  LET open == {pos \in DOMAIN order :
                 Len(dist[order[pos]]) < SmartCapacity(pws[order[pos]], pend[order[pos]], package)}
  IN IF recipient_idx >= Len(recips) \/ open = {} THEN dist
     ELSE LET k == order[MinOf(open)]
          IN SmartRemaining(pws, pend, package, recips, order, recipient_idx + 1,
                            [dist EXCEPT ![k] = Append(@, recips[recipient_idx + 1])])

\* _smart
Smart(pws, pend, package, recips) ==
  IF TotalScore(pws, pend, package, 1) = 0
    THEN RoundRobin(pws, pend, package.max_messages_per_day, recips)
  ELSE LET order == SortedByScore(pws, pend, package, DOMAIN pws)
           s == SmartSlices(pws, pend, package, recips, order, 1, 0, EmptyDist(pws))
       IN SmartRemaining(pws, pend, package, recips, order, s.idx, s.dist)

\* the dispatch at the end of distribute: the set of outcomes a mode can
\* give; an outcome is the assignment and whether the call returns at all
StrategyOutcomes(mode, pws, pend, package, recips) ==
  IF mode = "random"
    THEN {[dist |-> d, returns |-> TRUE] :
            d \in Random(pws, pend, package.max_messages_per_day, recips)}
  ELSE IF mode = "weighted"
    THEN {Weighted(pws, pend, package.max_messages_per_day, recips)}
  ELSE IF mode = "smart"
    THEN {[dist |-> Smart(pws, pend, package, recips), returns |-> TRUE]}
  ELSE {[dist |-> RoundRobin(pws, pend, package.max_messages_per_day, recips), returns |-> TRUE]}

\* SelectSeq with the positions kept: the active profiles of a profile list
ActiveOnly(profs) == SelectSeq(profs, LAMBDA pr : pr.status = "active")

\* distribute: the active profiles are loaded with their statistics and
\* pending counts, no active profile raises ValueError, else the mode's
\* strategy runs.  profs is the package's profile list, pendOf[id] the
\* number of waiting items of a profile.
NoActiveProfiles == "No active profiles available in this package"

\* distribute without the check for an empty profile list: nobody is assigned
DistributeOutcomesNoCheck(package, profs, pendOf, recips) ==
  LET pws == ActiveOnly(profs)
      pend == [k \in DOMAIN pws |-> pendOf[pws[k].id]]
  IN IF Len(pws) = 0
       THEN {[error |-> "", dist |-> <<>>, returns |-> TRUE]}
     ELSE {[error |-> "", dist |-> o.dist, returns |-> o.returns] :
             o \in StrategyOutcomes(package.distribution_mode, pws, pend, package, recips)}

DistributeOutcomes(package, profs, pendOf, recips) ==
  LET pws == ActiveOnly(profs)
      pend == [k \in DOMAIN pws |-> pendOf[pws[k].id]]
  IN IF Len(pws) = 0
       THEN {[error |-> NoActiveProfiles, dist |-> <<>>, returns |-> TRUE]}
     ELSE {[error |-> "", dist |-> o.dist, returns |-> o.returns] :
             o \in StrategyOutcomes(package.distribution_mode, pws, pend, package, recips)}

\* ------------------------------------------------------------ SpecDist
\* distribute as a function of its inputs: Init draws a package, two
\* profiles with statistics and pending counts, and a recipient list.
Modes == {"round_robin", "random", "weighted", "smart"}
DistProfileIds == <<"A", "B">>
LimitOverrides == {None, 1, 2}
Scorings == {<<1, 0>>, <<3, 0>>, <<3, 60>>}
StatusLists == {<<"active", "active">>, <<"paused", "active">>, <<"paused", "paused">>}
PkgDailyDefault == 3
PkgHourlyDefault == 20
Pkg3HoursDefault == 45

DistPackage(mode) ==
  [distribution_mode |-> mode, max_messages_per_day |-> PkgDailyDefault,
   max_messages_per_hour |-> PkgHourlyDefault, max_messages_per_3hours |-> Pkg3HoursDefault]

DistProfile(id, status, sent, limit, scoring) ==
  [id |-> id, status |-> status, sent_today |-> sent, sent_hour |-> sent,
   sent_3hours |-> sent, max_messages_per_day |-> limit,
   max_messages_per_hour |-> None, max_messages_per_3hours |-> None,
   weight_score |-> scoring[1], risk_score |-> scoring[2],
   health_score |-> 100, success_rate |-> 100]

DistNotCalled == [called |-> FALSE, error |-> "", dist |-> <<>>, returns |-> FALSE]
SeqNotStarted == [pend |-> <<>>, dist |-> <<>>, next |-> 0, error |-> "", returns |-> TRUE]

InitDistVars ==
  /\ \E mode \in Modes, st \in StatusLists, n \in 1..MaxRecips,
        sent \in [DOMAIN DistProfileIds -> 0..MaxSent],
        lim \in [DOMAIN DistProfileIds -> LimitOverrides],
        sc \in [DOMAIN DistProfileIds -> Scorings],
        pe \in [{DistProfileIds[k] : k \in DOMAIN DistProfileIds} -> 0..1] :
       dIn = [pkg |-> DistPackage(mode),
              profs |-> [k \in DOMAIN DistProfileIds |->
                           DistProfile(DistProfileIds[k], st[k], sent[k], lim[k], sc[k])],
              pend |-> pe,
              recips |-> [i \in 1..n |-> i]]
  /\ dOut = DistNotCalled
  /\ dSeq = SeqNotStarted

\* one call of distribute under the package's mode
DistributeCall(mode) ==
  /\ ~dOut.called
  /\ dIn.pkg.distribution_mode = mode
  /\ \E o \in DistributeOutcomes(dIn.pkg, dIn.profs, dIn.pend, dIn.recips) :
       dOut' = [called |-> TRUE, error |-> o.error, dist |-> o.dist, returns |-> o.returns]
  /\ UNCHANGED <<dIn, dSeq, varsGQ, varsMain, varsRest>>

\* C5: whatever the strategy, a profile that was given recipients ends
\* within its effective daily cap: sent_today + pending + assigned <= limit,
\* so no recipient was assigned to a profile that had reached its cap.
C5_NeverOverCap ==
  (dOut.called /\ dOut.error = "") =>
    LET pws == ActiveOnly(dIn.profs)
    IN \A k \in DOMAIN dOut.dist :
         Len(dOut.dist[k]) > 0 =>
           pws[k].sent_today + dIn.pend[pws[k].id] + Len(dOut.dist[k])
             <= DailyLimit(pws[k], dIn.pkg.max_messages_per_day)

\* ------------------------------------------------------------- SpecSeq
\* The recipients of one request sent as single-recipient requests, one
\* after the other: each request runs distribute with the pending counts
\* the requests before it left (send_open_chat queues a waiting row for
\* every assigned recipient).
SeqRecips == 4
SeqMaxSent == 1
SeqLimits == {None, 2}
SeqStatusLists == {<<"active", "active">>, <<"paused", "active">>}

InitSeqVars ==
  /\ \E mode \in Modes, st \in SeqStatusLists, n \in 1..SeqRecips,
        sent \in [DOMAIN DistProfileIds -> 0..SeqMaxSent],
        lim \in [DOMAIN DistProfileIds -> SeqLimits],
        sc \in [DOMAIN DistProfileIds -> Scorings],
        pe \in [{DistProfileIds[k] : k \in DOMAIN DistProfileIds} -> 0..1] :
       dIn = [pkg |-> DistPackage(mode),
              profs |-> [k \in DOMAIN DistProfileIds |->
                           DistProfile(DistProfileIds[k], st[k], sent[k], lim[k], sc[k])],
              pend |-> pe,
              recips |-> [i \in 1..n |-> i]]
  /\ dOut = DistNotCalled
  /\ dSeq = [pend |-> dIn.pend, dist |-> EmptyDist(ActiveOnly(dIn.profs)), next |-> 1,
             error |-> "", returns |-> TRUE]

\* the next recipient as a request of its own; the rows it queues count as
\* pending for the requests after it
SequentialRequest ==
  /\ dOut.called
  /\ dSeq.returns /\ dSeq.error = ""
  /\ dSeq.next <= Len(dIn.recips)
  /\ LET pws == ActiveOnly(dIn.profs)
     IN \E o \in DistributeOutcomes(dIn.pkg, dIn.profs, dSeq.pend, <<dIn.recips[dSeq.next]>>) :
          dSeq' = IF o.error # "" \/ ~o.returns
                    THEN [dSeq EXCEPT !.error = o.error, !.returns = o.returns]
                    ELSE [dSeq EXCEPT
                            !.dist = [k \in DOMAIN pws |-> dSeq.dist[k] \o o.dist[k]],
                            !.pend = [id \in DOMAIN dSeq.pend |->
                                        dSeq.pend[id]
                                          + Cardinality({k \in DOMAIN pws :
                                                           pws[k].id = id /\ o.dist[k] # <<>>})],
                            !.next = @ + 1]
  /\ UNCHANGED <<dIn, dOut, varsGQ, varsMain, varsRest>>

\* both runs are over
SeqFinished ==
  /\ dOut.called
  /\ dSeq.next > Len(dIn.recips) \/ dSeq.error # "" \/ ~dSeq.returns

\* the single request left every active profile under its daily limit
NoCapReached ==
  LET pws == ActiveOnly(dIn.profs)
  IN \A k \in DOMAIN pws :
       pws[k].sent_today + dIn.pend[pws[k].id] + Len(dOut.dist[k])
         < DailyLimit(pws[k], dIn.pkg.max_messages_per_day)

\* two active profiles with nothing sent and nothing pending, four recipients
ZeroLoadPair ==
  /\ Len(ActiveOnly(dIn.profs)) = 2
  /\ \A k \in DOMAIN dIn.profs : dIn.profs[k].sent_today = 0 /\ dIn.pend[dIn.profs[k].id] = 0
  /\ Len(dIn.recips) = 4

\* C12: under round_robin, when the request leaves no profile at its cap,
\* the recipients sent one by one (each counted as pending before the next)
\* get the same profile -> recipients map as in one request; two profiles
\* at zero load give A: r1, r3 and B: r2, r4.
C12_RotateShapeIndependence ==
  (/\ SeqFinished /\ dIn.pkg.distribution_mode = "round_robin"
   /\ dOut.error = "" /\ NoCapReached)
    => /\ dSeq.error = "" /\ dSeq.returns
       /\ dSeq.dist = dOut.dist
       /\ ZeroLoadPair => dSeq.dist = << <<1, 3>>, <<2, 4>> >>

\* four single requests have run on two profiles at zero load
C12_Witness ==
  /\ SeqFinished /\ dIn.pkg.distribution_mode = "round_robin"
  /\ ZeroLoadPair /\ NoCapReached
  /\ dSeq.next = 5
  /\ dSeq.dist = << <<1, 3>>, <<2, 4>> >>

\* C13: under the weighted and the smart strategy too, the recipients sent
\* one by one (pending counts updated in between) give every profile as
\* many recipients as the one request with all of them.
C13_QueueAwareCounts ==
  (/\ SeqFinished /\ dIn.pkg.distribution_mode \in {"weighted", "smart"}
   /\ dOut.error = "" /\ dOut.returns /\ dSeq.returns)
    => \A k \in DOMAIN dOut.dist : Len(dSeq.dist[k]) = Len(dOut.dist[k])

\* no active profile has room for one more message today
AllAtCapacity ==
  LET pws == ActiveOnly(dIn.profs)
  IN \A k \in DOMAIN pws :
       pws[k].sent_today + dIn.pend[pws[k].id] >= DailyLimit(pws[k], dIn.pkg.max_messages_per_day)

\* C11: when there are active profiles and none of them has daily capacity
\* left, distribute does not return an assignment: it fails with the error
\* that rejects the send request.
C11_NoCapacityIsAnError ==
  (dOut.called /\ ActiveOnly(dIn.profs) # <<>> /\ AllAtCapacity)
    => dOut.error = NoActiveProfiles

\* the (profile, position) places of the result that hold recipient r
PlacesOf(dist, r) ==
  {<<k, j>> \in (DOMAIN dist) \X (1..(MaxRecips + 1)) : j <= Len(dist[k]) /\ dist[k][j] = r}

\* C14: under the random strategy every recipient of the request is in
\* exactly one profile's list of the result, for every input with an active
\* profile, all profiles at capacity included.
C14_RandomDropsNothing ==
  (dOut.called /\ dIn.pkg.distribution_mode = "random" /\ ActiveOnly(dIn.profs) # <<>>)
    => /\ dOut.error = "" /\ dOut.returns
       /\ \A i \in DOMAIN dIn.recips : Cardinality(PlacesOf(dOut.dist, dIn.recips[i])) = 1

\* random has distributed three recipients over two active profiles that
\* were both at capacity
C14_Witness ==
  /\ dOut.called /\ dIn.pkg.distribution_mode = "random"
  /\ Len(ActiveOnly(dIn.profs)) = 2 /\ AllAtCapacity
  /\ Len(dIn.recips) = 3
  /\ \A k \in DOMAIN dOut.dist : dOut.dist[k] # <<>>

\* C38: whatever the strategy and the input, a result that distribute
\* returns is a partial partition of the request: each recipient of the
\* request is in at most one place of the result, everything in the result
\* is a recipient of the request, and every profile that was given
\* recipients is one of the profiles that were active when distribute ran.
C38_PartialPartition ==
  (dOut.called /\ dOut.error = "" /\ dOut.returns) =>
    LET pws == ActiveOnly(dIn.profs)
        requested == {dIn.recips[i] : i \in DOMAIN dIn.recips}
    IN /\ \A i \in DOMAIN dIn.recips : Cardinality(PlacesOf(dOut.dist, dIn.recips[i])) <= 1
       /\ \A k \in DOMAIN dOut.dist :
            /\ \A j \in DOMAIN dOut.dist[k] : dOut.dist[k][j] \in requested
            /\ dOut.dist[k] # <<>> =>
                 /\ k \in DOMAIN pws
                 /\ \E p \in DOMAIN dIn.profs :
                      dIn.profs[p].id = pws[k].id /\ dIn.profs[p].status = "active"

\* the weighted strategy has split three recipients between two active
\* profiles, and the smart strategy has placed two of three recipients
\* and left the third out
C38_Witness ==
  /\ dOut.called /\ dOut.error = "" /\ dOut.returns
  /\ Len(dIn.recips) = 3
  /\ Len(ActiveOnly(dIn.profs)) = 2
  /\ \A k \in DOMAIN dOut.dist : dOut.dist[k] # <<>>
  /\ \/ dIn.pkg.distribution_mode = "weighted" /\ Len(dOut.dist[1]) + Len(dOut.dist[2]) = 3
     \/ dIn.pkg.distribution_mode = "smart" /\ Len(dOut.dist[1]) + Len(dOut.dist[2]) = 2

\* C15: under the weighted and the smart strategy distribute returns for
\* every input, with fewer recipients assigned than requested when the
\* profiles have no room for all of them.
C15_TopUpTerminates ==
  (dOut.called /\ dIn.pkg.distribution_mode \in {"weighted", "smart"} /\ dOut.error = "")
    => dOut.returns

\* ------------------------------------------------- CooldownService
\* calculate_cooldown in exact arithmetic: the multipliers are counted in
\* tenths (0.5 is 5, 1.3 is 13), a cooldown is a fraction num / den of
\* seconds, and int() cuts a fraction towards zero.
IntOf(num, den) == IF num >= 0 THEN num \div den ELSE 0 - ((0 - num) \div den)

CriticalQueueSize == 21
CriticalTenths == 30
MinCooldown == 60
MaxCooldown == 2400
JitterLow == 5
JitterHigh == 15

\* STEP 3, lines 66-78: the queue mode and its multiplier, quiet tested
\* before rush hour
QueueModeQuietFirst(total_queue_size, package) ==
  IF total_queue_size >= CriticalQueueSize
    THEN [queue_mode |-> "critical", queue_multiplier |-> CriticalTenths]
  ELSE IF total_queue_size <= package.quiet_mode_threshold
    THEN [queue_mode |-> "quiet", queue_multiplier |-> package.quiet_mode_multiplier]
  ELSE IF total_queue_size > package.rush_hour_threshold
    THEN [queue_mode |-> "rush_hour", queue_multiplier |-> package.rush_hour_multiplier]
  ELSE [queue_mode |-> "normal", queue_multiplier |-> 10]

\* STEP 3, lines 66-78: the queue mode and its multiplier
QueueMode(total_queue_size, package) ==
  IF total_queue_size >= CriticalQueueSize
    THEN [queue_mode |-> "critical", queue_multiplier |-> CriticalTenths]
  ELSE IF total_queue_size > package.rush_hour_threshold
    THEN [queue_mode |-> "rush_hour", queue_multiplier |-> package.rush_hour_multiplier]
  ELSE IF total_queue_size <= package.quiet_mode_threshold
    THEN [queue_mode |-> "quiet", queue_multiplier |-> package.quiet_mode_multiplier]
  ELSE [queue_mode |-> "normal", queue_multiplier |-> 10]

\* STEP 4 with the upper comparison as "at least": a count equal to the
\* expected value slows down
TrendAdjustmentAtLeast(actual_2h, package) ==
  LET expected_tenths == package.max_messages_per_hour * 16
  IN IF expected_tenths <= 0 THEN 10
     ELSE IF actual_2h * 10 >= expected_tenths THEN 13
     ELSE IF actual_2h * 20 < expected_tenths THEN 8
     ELSE 10

\* STEP 4, lines 92-105: expected_2h = max_messages_per_hour * 2 * 0.8;
\* 1.3 when actual / expected > 1, 0.8 when it is < 0.5
TrendAdjustment(actual_2h, package) ==
  LET expected_tenths == package.max_messages_per_hour * 16
  IN IF expected_tenths <= 0 THEN 10
     ELSE IF actual_2h * 10 > expected_tenths THEN 13
     ELSE IF actual_2h * 20 < expected_tenths THEN 8
     ELSE 10

\* lines 110-115: the risk score adjustment
RiskAdjustment(risk_score) ==
  IF risk_score > 80 THEN 20 ELSE IF risk_score > 50 THEN 15
  ELSE IF risk_score > 20 THEN 12 ELSE 10

\* line 118 without the floor and the ceiling
ClampNone(num, den) == IntOf(num, den)

\* lines 118-119: max(60, min(final_cooldown, 2400)), then int()
Clamp(num, den) ==
  IF num < MinCooldown * den THEN MinCooldown
  ELSE IF num > MaxCooldown * den THEN MaxCooldown
  ELSE IntOf(num, den)

\* the base cooldown in seconds as a fraction: (24 - freeze) * 60 /
\* max(max_messages_per_day, 1) * 60
BaseNum(package) == (24 - package.freeze_duration_hours) * 3600
BaseDen(package) == Max2(package.max_messages_per_day, 1)

\* the base cooldown taken from a whole day, the freeze hours not subtracted
CalculateCooldownWholeDay(package, risk_score, total_queue_size, actual_2h, jitter) ==
  LET wholeDay == [package EXCEPT !.freeze_duration_hours = 0]
      qm == QueueMode(total_queue_size, package)
      trend == TrendAdjustment(actual_2h, package)
      risk == RiskAdjustment(risk_score)
      den == BaseDen(package)
      final_num == (BaseNum(wholeDay) \div 100) * jitter * qm.queue_multiplier * trend * risk
      final_cooldown_seconds == Clamp(final_num, den * 100)
  IN [cooldown_seconds |-> final_cooldown_seconds,
      cooldown_mode |-> qm.queue_mode,
      breakdown |->
        [base_cooldown_seconds |-> IntOf(BaseNum(wholeDay), den),
         random_range |-> [min |-> IntOf(BaseNum(wholeDay) * JitterLow, den * 10),
                           max |-> IntOf(BaseNum(wholeDay) * JitterHigh, den * 10)],
         random_selected |-> IntOf(BaseNum(wholeDay) * jitter, den * 10),
         queue_size |-> total_queue_size,
         queue_mode |-> qm.queue_mode,
         queue_multiplier |-> qm.queue_multiplier,
         trend_adjustment |-> trend,
         risk_score |-> risk_score,
         final_cooldown_seconds |-> final_cooldown_seconds],
      stats |-> [current_cooldown_seconds |-> final_cooldown_seconds,
                 cooldown_mode |-> qm.queue_mode]]

\* calculate_cooldown: jitter is the draw of random.uniform in tenths of
\* the base (5 to 15); the product of the four multipliers is over 10^4,
\* and 3600 / 100 is taken out of both sides of the fraction
CalculateCooldown(package, risk_score, total_queue_size, actual_2h, jitter) ==
  LET qm == QueueMode(total_queue_size, package)
      trend == TrendAdjustment(actual_2h, package)
      risk == RiskAdjustment(risk_score)
      den == BaseDen(package)
      final_num == (BaseNum(package) \div 100) * jitter * qm.queue_multiplier * trend * risk
      final_cooldown_seconds == Clamp(final_num, den * 100)
  IN [cooldown_seconds |-> final_cooldown_seconds,
      cooldown_mode |-> qm.queue_mode,
      breakdown |->
        [base_cooldown_seconds |-> IntOf(BaseNum(package), den),
         random_range |-> [min |-> IntOf(BaseNum(package) * JitterLow, den * 10),
                           max |-> IntOf(BaseNum(package) * JitterHigh, den * 10)],
         random_selected |-> IntOf(BaseNum(package) * jitter, den * 10),
         queue_size |-> total_queue_size,
         queue_mode |-> qm.queue_mode,
         queue_multiplier |-> qm.queue_multiplier,
         trend_adjustment |-> trend,
         risk_score |-> risk_score,
         final_cooldown_seconds |-> final_cooldown_seconds],
      stats |-> [current_cooldown_seconds |-> final_cooldown_seconds,
                 cooldown_mode |-> qm.queue_mode]]

\* ------------------------------------------------------------ SpecCool
\* calculate_cooldown as a function of what it reads: the package's
\* settings (PackageUpdate sets them unvalidated, so a freeze of more than
\* a day and a daily limit of 0 occur), the count of the package's waiting
\* rows, the deliveries of the last two hours, the risk score, the draw.
MaxQueueSize == 22
FreezeHours == {0, 4, 30}
DailyLimits == {0, 120}
HourlyLimits == {0, 20}
RushSettings == {<<10, 20>>, <<3, 50>>}
QuietSettings == {<<5, 5>>, <<12, 1>>}
TwoHourCounts == {0, 15, 16, 32, 33}
RiskScores == {0, 21, 51, 81}
JitterDraws == {JitterLow, 7, 10, JitterHigh}

CoolNotCalled == [called |-> FALSE]

InitCoolVars ==
  /\ \E freeze \in FreezeHours, daily \in DailyLimits, hourly \in HourlyLimits,
        rush \in RushSettings, quiet \in QuietSettings,
        total \in 0..MaxQueueSize, actual \in TwoHourCounts,
        risk \in RiskScores, jitter \in JitterDraws :
       cIn = [package |-> [freeze_duration_hours |-> freeze,
                           max_messages_per_day |-> daily,
                           max_messages_per_hour |-> hourly,
                           rush_hour_threshold |-> rush[1],
                           rush_hour_multiplier |-> rush[2],
                           quiet_mode_threshold |-> quiet[1],
                           quiet_mode_multiplier |-> quiet[2]],
              risk_score |-> risk, total_queue_size |-> total,
              actual_2h |-> actual, jitter |-> jitter]
  /\ cOut = CoolNotCalled

\* one call of calculate_cooldown
CooldownCall ==
  /\ ~cOut.called
  /\ cOut' = [called |-> TRUE,
              result |-> CalculateCooldown(cIn.package, cIn.risk_score, cIn.total_queue_size,
                                           cIn.actual_2h, cIn.jitter)]
  /\ UNCHANGED <<cIn, varsIso, varsChat, varsGQ, varsDist, varsMain>>

\* C24: whatever the settings, the queue size, the trend, the risk score
\* and the draw, the cooldown returned is a whole number of seconds from 60
\* to 2400, and it is what the statistics record.
C24_CooldownClamped ==
  cOut.called =>
    /\ cOut.result.cooldown_seconds \in MinCooldown..MaxCooldown
    /\ cOut.result.stats.current_cooldown_seconds = cOut.result.cooldown_seconds

\* the floor has caught a cooldown below a minute (a negative one, from a
\* freeze of more than a day)
C24_Witness ==
  /\ cOut.called
  /\ cIn.package.freeze_duration_hours > 24
  /\ cOut.result.breakdown.random_selected < 0
  /\ cOut.result.cooldown_seconds = MinCooldown

\* C25: the mode follows the size of the package's whole queue in this
\* order: 21 or more is critical (x3.0), else more than the rush threshold
\* is rush_hour (the package's rush multiplier), else at most the quiet
\* threshold is quiet (the package's quiet multiplier), else normal (x1.0).
C25_QueueModePrecedence ==
  cOut.called =>
    LET n == cIn.total_queue_size
        pk == cIn.package
        r == cOut.result
        critical == n >= 21
        rush == ~critical /\ n > pk.rush_hour_threshold
        quiet == ~critical /\ ~rush /\ n <= pk.quiet_mode_threshold
    IN /\ r.cooldown_mode \in {"critical", "rush_hour", "quiet", "normal"}
       /\ r.breakdown.queue_size = n
       /\ (r.cooldown_mode = "critical") = critical
       /\ (r.cooldown_mode = "rush_hour") = rush
       /\ (r.cooldown_mode = "quiet") = quiet
       /\ (r.cooldown_mode = "normal") = (~critical /\ ~rush /\ ~quiet)
       /\ r.breakdown.queue_multiplier =
            (CASE r.cooldown_mode = "critical" -> 30
               [] r.cooldown_mode = "rush_hour" -> pk.rush_hour_multiplier
               [] r.cooldown_mode = "quiet" -> pk.quiet_mode_multiplier
               [] OTHER -> 10)

\* a queue above the rush threshold and within the quiet threshold (the
\* thresholds crossed over) has been given rush_hour
C25_Witness ==
  /\ cOut.called
  /\ cIn.total_queue_size > cIn.package.rush_hour_threshold
  /\ cIn.total_queue_size <= cIn.package.quiet_mode_threshold
  /\ cOut.result.cooldown_mode = "rush_hour"
  /\ cOut.result.breakdown.queue_multiplier = 50

\* C26: for a daily limit of at least 1 and a freeze of at most a day the
\* base is (24 - freeze) * 3600 / daily limit seconds and the draw lies
\* from half to one and a half times the base; a daily limit of 120 and a
\* freeze of 4 hours give a base of 600 s and a range of 300 to 900 s,
\* and in normal mode without trend or risk adjustment the cooldown
\* returned is in 300..900.
C26_BaseAndJitter ==
  (/\ cOut.called
   /\ cIn.package.max_messages_per_day >= 1
   /\ cIn.package.freeze_duration_hours <= 24)
    => LET pk == cIn.package
           b == cOut.result.breakdown
           whole == (24 - pk.freeze_duration_hours) * 3600
       IN /\ b.base_cooldown_seconds * pk.max_messages_per_day <= whole
          /\ whole < (b.base_cooldown_seconds + 1) * pk.max_messages_per_day
          /\ b.random_range.min * 2 * pk.max_messages_per_day <= whole
          /\ whole * 3 < (b.random_range.max + 1) * 2 * pk.max_messages_per_day
          /\ b.random_range.min <= b.random_selected
          /\ b.random_selected <= b.random_range.max
          /\ (pk.max_messages_per_day = 120 /\ pk.freeze_duration_hours = 4)
               => /\ b.base_cooldown_seconds = 600
                  /\ b.random_range = [min |-> 300, max |-> 900]
                  /\ (/\ b.queue_mode = "normal" /\ b.trend_adjustment = 10
                      /\ cIn.risk_score <= 20)
                       => cOut.result.cooldown_seconds \in 300..900

\* the scenario: limit 120, freeze 4, normal mode, on-target trend, low
\* risk, the draw at the top of its range: 900 s
C26_Witness ==
  /\ cOut.called
  /\ cIn.package.max_messages_per_day = 120 /\ cIn.package.freeze_duration_hours = 4
  /\ cOut.result.cooldown_mode = "normal"
  /\ cOut.result.breakdown.trend_adjustment = 10 /\ cIn.risk_score <= 20
  /\ cIn.jitter = JitterHigh
  /\ cOut.result.cooldown_seconds = 900

\* C31: with expected = hourly limit * 2 * 0.8 (8/5 of the hourly limit per
\* hour, twice), the trend multiplier is 1.3 exactly when the count of the
\* last two hours is greater than expected, 0.8 exactly when it is less
\* than half of expected, and 1.0 otherwise, an expected value of 0
\* included; the cooldown returned is the product with that multiplier,
\* clamped.
C31_TrendCorrection ==
  cOut.called =>
    LET pk == cIn.package
        b == cOut.result.breakdown
        expected_is_0 == pk.max_messages_per_hour = 0
        faster == ~expected_is_0 /\ 5 * cIn.actual_2h > 8 * pk.max_messages_per_hour
        slower == ~expected_is_0 /\ 10 * cIn.actual_2h < 8 * pk.max_messages_per_hour
        product == ((24 - pk.freeze_duration_hours) * 36) * cIn.jitter
                     * b.queue_multiplier * RiskAdjustment(cIn.risk_score) * b.trend_adjustment
        scale == Max2(pk.max_messages_per_day, 1) * 100
        whole == IntOf(product, scale)
    IN /\ (b.trend_adjustment = 13) = faster
       /\ (b.trend_adjustment = 8) = (~faster /\ slower)
       /\ (b.trend_adjustment = 10) = (~faster /\ ~slower)
       /\ b.trend_adjustment \in {8, 10, 13}
       /\ cOut.result.cooldown_seconds =
            Max2(MinCooldown, Min2(whole, MaxCooldown))

\* one send more than expected (33 against 32) has slowed an unclamped
\* cooldown down
C31_Witness ==
  /\ cOut.called
  /\ cIn.package.max_messages_per_hour = 20 /\ cIn.actual_2h = 33
  /\ cOut.result.breakdown.trend_adjustment = 13
  /\ cOut.result.cooldown_seconds > MinCooldown
  /\ cOut.result.cooldown_seconds < MaxCooldown

\* ------------------------------------------------------------- Spec
\* The running service.  Rows are appended to queue and messages and never
\* reordered, so a row's position is its id.  A send_open_chat request
\* works in its own session: OpenChatBegin is the request up to its last
\* flush (everything it reads, everything it decides), OpenChatCommit the
\* commit of the session.  The background task works through one sweep at
\* a time, item by item.
MainProfileIds == <<"A", "B">>
MainModes == {"round_robin"}
ReqIds == {1, 2}
RetryChoices == {0, 2}
MainDailyDefault == 2
MaxQueue == 2
MaxMessages == 2
MaxReqRecips == 2
MaxTime == 70
MainCooldowns == {60}
SweepLimit == 10
RetryBase == 5
RetryDelayDefault == 5
RetryDelays == {RetryDelayDefault, 10}
AutoResumeHours == 2
ProfileNotAvailable == "Profile not available"
TransportError == "Unknown error"
AutoPausedError == "Profile auto-paused due to block detection"
\* pause_reason as _auto_pause_profile ("Auto-paused: " and the indicator)
\* and toggle_status write it
AutoPausedReason == "Auto-paused"
ManuallyPaused == "Manually paused by user"
\* send_immediately as the request schema defaults it
ImmediateChoices == {FALSE}
\* max_messages_per_day of the profiles: A has a limit of its own
MainDailyOverride == <<1, None>>

MainPackage(mode) ==
  [distribution_mode |-> mode, max_messages_per_day |-> MainDailyDefault,
   max_messages_per_hour |-> PkgHourlyDefault, max_messages_per_3hours |-> Pkg3HoursDefault,
   retry_attempts |-> 2, retry_delay_seconds |-> RetryDelayDefault,
   auto_pause_on_failures |-> TRUE]

MainProfile(k) ==
  [id |-> MainProfileIds[k], status |-> "active", pause_reason |-> None, resume_at |-> None,
   last_message_at |-> None,
   sent_today |-> 0, sent_hour |-> 0, sent_3hours |-> 0,
   max_messages_per_day |-> MainDailyOverride[k], max_messages_per_hour |-> None,
   max_messages_per_3hours |-> None,
   weight_score |-> 10, risk_score |-> 0, health_score |-> 100, success_rate |-> 100]

IdxOf(id) == CHOOSE k \in DOMAIN profiles : profiles[k].id = id

\* the count of waiting rows per profile (_get_pending_counts)
PendingCounts(q) ==
  [id \in {profiles[k].id : k \in DOMAIN profiles} |->
     Cardinality({i \in DOMAIN q : q[i].profile = id /\ q[i].status = "waiting"})]

NoRequest ==
  [pc |-> "idle", error |-> "", total |-> 0, items |-> <<>>, seen |-> 0,
   immediate |-> [profile |-> "", ok |-> FALSE, sent_today |-> 0, at |-> 0, recipient |-> 0]]

NoSweep ==
  [pc |-> "idle", items |-> <<>>, cur |-> 0, due |-> {}, at |-> 0, dispatched |-> 0,
   undo |-> <<>>, routed |-> {}]
NoDispatch == [item |-> 0, at |-> 0, scheduled |-> 0, dispatched |-> 0]
NoReply == [seq |-> 0, recipient |-> 0, profile |-> "", ok |-> FALSE, error |-> ""]

\* conversation_routing: rows <<customer_phone, assigned_profile_id>> of the
\* package, at most one per customer_phone (unique_customer_routing)
RoutingFor(rt, r) ==
  IF \E x \in rt : x[1] = r THEN (CHOOSE x \in rt : x[1] = r)[2] ELSE ""

\* the record for r is created, or its assigned_profile_id overwritten
SetRouting(rt, r, p) == {x \in rt : x[1] # r} \cup {<<r, p>>}

InitMainVars ==
  /\ now = 0
  /\ pkg \in {MainPackage(mode) : mode \in MainModes}
  /\ profiles = [k \in DOMAIN MainProfileIds |-> MainProfile(k)]
  /\ queue = <<>>
  /\ messages = <<>>
  /\ reqs = [r \in ReqIds |-> NoRequest]
  /\ sweep = NoSweep
  /\ lastDispatch = NoDispatch
  /\ routing = {}
  /\ lastReply = NoReply
  /\ resumeAlerts = <<>>

\* send_open_chat, lines 86-116: the reference point of a profile's new items
BaseTime(q, prof, cooldown_secs, tnow) ==
  LET last_pending_time == MaxWaitingAt(q, {prof.id})
      reference_time == IF last_pending_time # None /\ last_pending_time > tnow
                          THEN last_pending_time ELSE tnow
      earliest_after_last_sent == prof.last_message_at + cooldown_secs
  IN IF prof.last_message_at # None /\ earliest_after_last_sent > reference_time
       THEN earliest_after_last_sent ELSE reference_time

\* the MessageQueue row send_open_chat adds for the i-th (0-based) recipient
\* of a profile; cd and seen record the cooldown it was scheduled with and
\* how many rows the queue held when its request read it
OpenChatItem(prof, recipient, base_time, cooldown_secs, i, seen) ==
  [message |-> 0, profile |-> prof.id, recipient |-> recipient, status |-> "waiting",
   at |-> base_time + cooldown_secs * i, attempt_count |-> 0,
   max_attempts |-> pkg.retry_attempts, last_error |-> "",
   cd |-> cooldown_secs, seen |-> seen]

\* the loop over distribution.items(): the rows to add, the profiles in
\* query order; skipFirst says the first recipient of the first profile is
\* sent at once instead of queued (send_immediately)
RECURSIVE OpenChatItems(_, _, _, _, _, _, _)
OpenChatItems(q, pws, dist, cds, k, skipFirst, tnow) ==
  IF k > Len(pws) THEN <<>>
  ELSE IF dist[k] = <<>> THEN OpenChatItems(q, pws, dist, cds, k + 1, skipFirst, tnow)
  ELSE LET cooldown == cds[pws[k].id]
           base_time == BaseTime(q, pws[k], cooldown, tnow)
           first == IF skipFirst THEN 2 ELSE 1
           rows == [j \in 1..(Len(dist[k]) - first + 1) |->
                      OpenChatItem(pws[k], dist[k][j + first - 1], base_time, cooldown,
                                   j + first - 2, Len(q))]
       IN rows \o OpenChatItems(q, pws, dist, cds, k + 1, FALSE, tnow)

\* the first profile of the distribution dict
FirstAssigned(pws, dist) == MinOf({k \in DOMAIN pws : dist[k] # <<>>})

RECURSIVE SumLen(_, _)
SumLen(dist, k) == IF k > Len(dist) THEN 0 ELSE Len(dist[k]) + SumLen(dist, k + 1)

\* rows that open requests have flushed but not committed
InFlight == LET RECURSIVE Sum(_)
                Sum(S) == IF S = {} THEN 0
                          ELSE LET r == CHOOSE x \in S : TRUE
                               IN Len(reqs[r].items) + Sum(S \ {r})
            IN Sum(ReqIds)

\* get_db after the route raised: the session is rolled back, the request
\* leaves its error and nothing else
RolledBack(error) == [NoRequest EXCEPT !.error = error]

\* send_open_chat up to its final flush, for n recipients.  A ValueError
\* of distribute ends the request: the session is rolled back, nothing of
\* it is persisted.
OpenChatBegin(r, n, send_immediately) ==
  /\ reqs[r].pc = "idle"
  /\ \A other \in ReqIds : other < r => reqs[other].pc # "idle"
  /\ Len(queue) + InFlight + n <= MaxQueue
  /\ Len(messages) + Cardinality({x \in ReqIds : reqs[x].pc = "flushed"}) < MaxMessages
  /\ LET recipients == [i \in 1..n |-> i]
         pws == ActiveOnly(profiles)
     IN \E o \in DistributeOutcomes(pkg, profiles, PendingCounts(queue), recipients) :
          IF o.error # ""
            THEN reqs' = [reqs EXCEPT ![r] = RolledBack(o.error)]
          ELSE IF ~o.returns
            THEN reqs' = [reqs EXCEPT ![r] = [NoRequest EXCEPT !.pc = "hung"]]
          ELSE \E cds \in [{pws[k].id : k \in DOMAIN pws} -> MainCooldowns], ok \in BOOLEAN :
                 LET assigned == SumLen(o.dist, 1)
                     imm == send_immediately /\ assigned > 0
                     ip == IF imm THEN pws[FirstAssigned(pws, o.dist)] ELSE pws[1]
                 IN /\ (~imm => ok)
                    /\ reqs' = [reqs EXCEPT ![r] =
                         [pc |-> "flushed", error |-> "", total |-> n,
                          items |-> OpenChatItems(queue, pws, o.dist, cds, 1, imm, now),
                          seen |-> Len(queue),
                          immediate |->
                            IF imm
                              THEN [profile |-> ip.id, ok |-> ok,
                                    sent_today |-> ip.sent_today + 1,
                                    at |-> now,
                                    recipient |-> o.dist[FirstAssigned(pws, o.dist)][1]]
                              ELSE NoRequest.immediate]]
  /\ UNCHANGED <<now, pkg, profiles, queue, messages, sweep, lastDispatch>>
  /\ UNCHANGED <<routing, lastReply>>
  /\ UNCHANGED <<resumeAlerts, varsGQ, varsDist, varsRest>>

\* the commit of the request's session: the Message row, its queue rows,
\* and for an immediate send the statistics and last_message_at the session wrote
OpenChatCommit(r) ==
  /\ reqs[r].pc = "flushed"
  /\ LET rq == reqs[r]
         imm == rq.immediate.profile # ""
         done == IF imm THEN 1 ELSE 0
     IN /\ messages' = Append(messages,
             [status |-> "queued", total_recipients |-> rq.total,
              processed_count |-> done,
              success_count |-> IF imm /\ rq.immediate.ok THEN 1 ELSE 0,
              failed_count |-> IF imm /\ ~rq.immediate.ok THEN 1 ELSE 0])
        /\ queue' = queue \o [j \in DOMAIN rq.items |->
                                [rq.items[j] EXCEPT !.message = Len(messages) + 1]]
        /\ profiles' =
             IF imm
               THEN [profiles EXCEPT ![IdxOf(rq.immediate.profile)] =
                       [@ EXCEPT !.sent_today = rq.immediate.sent_today,
                                 !.sent_hour = rq.immediate.sent_today,
                                 !.sent_3hours = rq.immediate.sent_today,
                                 !.last_message_at = rq.immediate.at]]
               ELSE profiles
        /\ routing' =
             IF imm /\ rq.immediate.ok
               THEN SetRouting(routing, rq.immediate.recipient, rq.immediate.profile)
               ELSE routing
  /\ reqs' = [reqs EXCEPT ![r] = NoRequest]
  /\ UNCHANGED <<now, pkg, sweep, lastDispatch, lastReply>>
  /\ UNCHANGED <<resumeAlerts, varsGQ, varsDist, varsRest>>

\* ---------------------------------------------------- the queue sweep
\* process_queue's query: the waiting rows due at tnow
DueItems(q, tnow) == {i \in DOMAIN q : q[i].status = "waiting" /\ q[i].at <= tnow}

\* ORDER BY scheduled_send_at: the orderings of a set of rows by time,
\* rows of equal time in any order
RECURSIVE OrderedBy(_, _)
OrderedBy(q, S) ==
  IF S = {} THEN {<<>>}
  ELSE LET earliest == MinOf({q[i].at : i \in S})
       IN UNION {{<<i>> \o rest : rest \in OrderedBy(q, S \ {i})} :
                   i \in {j \in S : q[j].at = earliest}}

\* LIMIT 10
FirstRows(sq, limit) == SubSeq(sq, 1, Min2(Len(sq), limit))

\* process_queue without the LIMIT
SelectBatchNoLimit(q, tnow) == OrderedBy(q, DueItems(q, tnow))

\* the batches process_queue can load
SelectBatch(q, tnow) == {FirstRows(sq, SweepLimit) : sq \in OrderedBy(q, DueItems(q, tnow))}

\* a cycle of background_processor begins: process_queue loads its batch
\* (a cycle that finds no row changes nothing).  due records the rows that
\* are waiting and due as the sweep starts, undo what the cycle's session
\* found, which is what a rollback of the session brings back.
SweepStart ==
  /\ sweep.pc = "idle"
  /\ \E batch \in SelectBatch(queue, now) :
       /\ batch # <<>>
       /\ sweep' = [pc |-> "running", items |-> batch, cur |-> 0,
                    due |-> DueItems(queue, now), at |-> now, dispatched |-> 0,
                    undo |-> [queue |-> queue, profiles |-> profiles,
                              messages |-> messages, routing |-> routing],
                    routed |-> {}]
  /\ UNCHANGED <<now, pkg, profiles, queue, messages, reqs, lastDispatch>>
  /\ UNCHANGED <<routing, lastReply>>
  /\ UNCHANGED <<resumeAlerts, varsGQ, varsDist, varsRest>>

\* _process_queue_item, lines 400-402: the next row of the batch is
\* marked processing and its attempt counted, whatever its status is by now
MarkProcessing ==
  /\ sweep.pc = "running"
  /\ sweep.cur = 0
  /\ sweep.items # <<>>
  /\ LET i == Head(sweep.items)
     IN /\ queue' = [queue EXCEPT ![i] = [@ EXCEPT !.status = "processing",
                                                   !.attempt_count = @ + 1]]
        /\ sweep' = [sweep EXCEPT !.cur = i, !.items = Tail(@)]
  /\ lastDispatch' = NoDispatch
  /\ UNCHANGED <<now, pkg, profiles, messages, reqs>>
  /\ UNCHANGED <<routing, lastReply>>
  /\ UNCHANGED <<resumeAlerts, varsGQ, varsDist, varsRest>>

\* the unavailable profile's row counted like a failed delivery
ProfileUnavailableCounted ==
  /\ sweep.pc = "running"
  /\ sweep.cur # 0
  /\ profiles[IdxOf(queue[sweep.cur].profile)].status # "active"
  /\ queue' = [queue EXCEPT ![sweep.cur] = [@ EXCEPT !.status = "failed",
                                                      !.last_error = ProfileNotAvailable]]
  /\ messages' = [messages EXCEPT ![queue[sweep.cur].message] =
                    [@ EXCEPT !.processed_count = @ + 1, !.failed_count = @ + 1]]
  /\ sweep' = [sweep EXCEPT !.cur = 0]
  /\ UNCHANGED <<now, pkg, profiles, reqs, lastDispatch>>
  /\ UNCHANGED <<routing, lastReply>>
  /\ UNCHANGED <<resumeAlerts, varsGQ, varsDist, varsRest>>

\* lines 404-414: the row's profile is not active
ProfileUnavailable ==
  /\ sweep.pc = "running"
  /\ sweep.cur # 0
  /\ profiles[IdxOf(queue[sweep.cur].profile)].status # "active"
  /\ queue' = [queue EXCEPT ![sweep.cur] = [@ EXCEPT !.status = "failed",
                                                      !.last_error = ProfileNotAvailable]]
  /\ sweep' = [sweep EXCEPT !.cur = 0]
  /\ UNCHANGED <<now, pkg, profiles, messages, reqs, lastDispatch>>
  /\ UNCHANGED <<routing, lastReply>>
  /\ UNCHANGED <<resumeAlerts, varsGQ, varsDist, varsRest>>

\* lines 482-496: the message's counters after a delivery attempt
CountAttempt(msgs, m, success) ==
  [msgs EXCEPT ![m] =
     LET counted == [@ EXCEPT !.processed_count = @ + 1,
                              !.success_count = @ + (IF success THEN 1 ELSE 0),
                              !.failed_count = @ + (IF success THEN 0 ELSE 1)]
     IN IF counted.processed_count >= counted.total_recipients
          THEN [counted EXCEPT !.status = "completed"] ELSE counted]

\* _update_profile_stats and line 501: the statistics count the attempt,
\* successful or not, and the profile's last_message_at is the attempt's time
UpdateProfileStats(profs, k, success, tnow) ==
  [profs EXCEPT ![k] = [@ EXCEPT !.sent_today = @ + 1,
                                 !.sent_hour = @ + 1,
                                 !.sent_3hours = @ + 1,
                                 !.last_message_at = tnow]]

\* what the transport call leaves behind for the checks: which row was
\* dispatched, when, and what its schedule said
Dispatched(i) ==
  [item |-> i, at |-> now, scheduled |-> queue[i].at, dispatched |-> sweep.dispatched + 1]

\* the delivery whose success leaves the routing table as it was
TransportSuccessNoRouting ==
  /\ sweep.pc = "running"
  /\ sweep.cur # 0
  /\ profiles[IdxOf(queue[sweep.cur].profile)].status = "active"
  /\ LET i == sweep.cur
     IN /\ queue' = [queue EXCEPT ![i] = [@ EXCEPT !.status = "sent"]]
        /\ messages' = CountAttempt(messages, queue[i].message, TRUE)
        /\ profiles' = UpdateProfileStats(profiles, IdxOf(queue[i].profile), TRUE, now)
        /\ lastDispatch' = Dispatched(i)
        /\ sweep' = [sweep EXCEPT !.cur = 0, !.dispatched = @ + 1]
  /\ UNCHANGED <<now, pkg, reqs>>
  /\ UNCHANGED <<routing, lastReply>>
  /\ UNCHANGED <<resumeAlerts, varsGQ, varsDist, varsRest>>

\* lines 417-468: the transport delivers; the routing record of the
\* recipient is created or pointed to the row's profile (lines 445-469)
TransportSuccess ==
  /\ sweep.pc = "running"
  /\ sweep.cur # 0
  /\ profiles[IdxOf(queue[sweep.cur].profile)].status = "active"
  /\ LET i == sweep.cur
     IN /\ queue' = [queue EXCEPT ![i] = [@ EXCEPT !.status = "sent"]]
        /\ messages' = CountAttempt(messages, queue[i].message, TRUE)
        /\ profiles' = UpdateProfileStats(profiles, IdxOf(queue[i].profile), TRUE, now)
        /\ routing' = SetRouting(routing, queue[i].recipient, queue[i].profile)
        /\ lastDispatch' = Dispatched(i)
        /\ sweep' = [sweep EXCEPT !.cur = 0, !.dispatched = @ + 1,
                                  !.routed = @ \cup {queue[i].recipient}]
  /\ UNCHANGED <<now, pkg, reqs, lastReply>>
  /\ UNCHANGED <<resumeAlerts, varsGQ, varsDist, varsRest>>

RECURSIVE Pow2(_)
Pow2(n) == IF n = 0 THEN 1 ELSE 2 * Pow2(n - 1)

\* lines 470-480: the row after a failed attempt
AfterFailure(item, tnow) ==
  IF item.attempt_count >= item.max_attempts
    THEN [item EXCEPT !.status = "failed", !.last_error = TransportError]
    ELSE [item EXCEPT !.status = "waiting", !.last_error = TransportError,
                      !.at = tnow + RetryBase * Pow2(item.attempt_count)]

\* _auto_pause_profile: the profile is paused for two hours and each of its
\* waiting rows cancelled
AutoPauseProfile(profs, k, tnow) ==
  [profs EXCEPT ![k] = [@ EXCEPT !.status = "paused", !.pause_reason = AutoPausedReason,
                                 !.resume_at = tnow + AutoResumeHours * 3600]]

CancelWaiting(q, id) ==
  [i \in DOMAIN q |->
     IF q[i].profile = id /\ q[i].status = "waiting"
       THEN [q[i] EXCEPT !.status = "cancelled", !.last_error = AutoPausedError]
       ELSE q[i]]

\* lines 470-516: the transport reports a failure; critical says
\* check_profile_for_blocks finds a critical indicator in the profile's
\* recent deliveries (the error text and the delivery log decide it)
TransportFailure(critical) ==
  /\ sweep.pc = "running"
  /\ sweep.cur # 0
  /\ profiles[IdxOf(queue[sweep.cur].profile)].status = "active"
  /\ LET i == sweep.cur
         k == IdxOf(queue[i].profile)
         failedQ == [queue EXCEPT ![i] = AfterFailure(@, now)]
         counted == UpdateProfileStats(profiles, k, FALSE, now)
         pause == critical /\ pkg.auto_pause_on_failures
     IN /\ queue' = IF pause THEN CancelWaiting(failedQ, queue[i].profile) ELSE failedQ
        /\ profiles' = IF pause THEN AutoPauseProfile(counted, k, now) ELSE counted
        /\ messages' = CountAttempt(messages, queue[i].message, FALSE)
        /\ lastDispatch' = Dispatched(i)
        /\ sweep' = [sweep EXCEPT !.cur = 0, !.dispatched = @ + 1]
  /\ UNCHANGED <<now, pkg, reqs>>
  /\ UNCHANGED <<routing, lastReply>>
  /\ UNCHANGED <<resumeAlerts, varsGQ, varsDist, varsRest>>

\* _process_queue_item raises after the transport call (the reply's body is
\* not a JSON object, so building the DeliveryLog fails): process_queue has
\* no handler, background_processor catches the exception, rolls the
\* cycle's session back and sleeps; the rest of the batch is not visited
TransportRaises ==
  /\ sweep.pc = "running"
  /\ sweep.cur # 0
  /\ profiles[IdxOf(queue[sweep.cur].profile)].status = "active"
  /\ queue' = [i \in DOMAIN queue |->
                 IF i \in DOMAIN sweep.undo.queue THEN sweep.undo.queue[i] ELSE queue[i]]
  /\ profiles' = sweep.undo.profiles
  /\ messages' = [m \in DOMAIN messages |->
                    IF m \in DOMAIN sweep.undo.messages THEN sweep.undo.messages[m]
                    ELSE messages[m]]
  /\ routing' = {x \in routing : x[1] \notin sweep.routed}
                  \cup {x \in sweep.undo.routing : x[1] \in sweep.routed}
  /\ lastDispatch' = Dispatched(sweep.cur)
  /\ sweep' = NoSweep
  /\ UNCHANGED <<now, pkg, reqs, lastReply>>
  /\ UNCHANGED <<resumeAlerts, varsGQ, varsDist, varsRest>>

\* the batch is worked off: the cycle ends
SweepEnd ==
  /\ sweep.pc = "running"
  /\ sweep.cur = 0
  /\ sweep.items = <<>>
  /\ sweep' = NoSweep
  /\ lastDispatch' = NoDispatch
  /\ UNCHANGED <<now, pkg, profiles, queue, messages, reqs>>
  /\ UNCHANGED <<routing, lastReply>>
  /\ UNCHANGED <<resumeAlerts, varsGQ, varsDist, varsRest>>

\* ------------------------------------------------ the service's callers
\* PUT /packages/{id} with retry_attempts: update_package sets what it is given
UpdatePackage(retry_attempts) ==
  /\ pkg.retry_attempts # retry_attempts
  /\ pkg' = [pkg EXCEPT !.retry_attempts = retry_attempts]
  /\ UNCHANGED <<now, profiles, queue, messages, reqs, sweep, lastDispatch>>
  /\ UNCHANGED <<routing, lastReply>>
  /\ UNCHANGED <<resumeAlerts, varsGQ, varsDist, varsRest>>

\* PATCH /profiles/{id}/status: toggle_status
ToggleStatus(k, status) ==
  /\ profiles' = [profiles EXCEPT ![k] =
                  [@ EXCEPT !.status = status,
                            !.pause_reason = IF status = "paused" THEN ManuallyPaused
                                             ELSE IF status = "active" THEN None ELSE @,
                            !.resume_at = IF status = "active" THEN None ELSE @]]
  /\ UNCHANGED <<now, pkg, queue, messages, reqs, sweep, lastDispatch>>
  /\ UNCHANGED <<routing, lastReply>>
  /\ UNCHANGED <<resumeAlerts, varsGQ, varsDist, varsRest>>

\* DELETE /packages/{id}/queue: delete_all_queue_items deletes every
\* message_queue row of the package's profiles, whatever its status
DeleteAllQueueItems ==
  /\ queue # <<>>
  /\ LET profile_ids == {profiles[k].id : k \in DOMAIN profiles}
     IN queue' = SelectSeq(queue, LAMBDA row : row.profile \notin profile_ids)
  /\ UNCHANGED <<now, pkg, profiles, messages, reqs, sweep, lastDispatch>>
  /\ UNCHANGED <<routing, lastReply>>
  /\ UNCHANGED <<resumeAlerts, varsGQ, varsDist, varsRest>>

\* time passes, up to a time something is scheduled for: a waiting row's
\* scheduled_send_at or a paused profile's resume_at
TickTargets ==
  {queue[i].at : i \in {j \in DOMAIN queue : queue[j].status = "waiting"}}
    \cup {profiles[k].resume_at : k \in DOMAIN profiles}

Tick ==
  /\ \E t \in TickTargets : t > now /\ t <= MaxTime /\ now' = t
  /\ UNCHANGED <<pkg, profiles, queue, messages, reqs, sweep, lastDispatch>>
  /\ UNCHANGED <<routing, lastReply>>
  /\ UNCHANGED <<resumeAlerts, varsGQ, varsDist, varsRest>>

\* auto_resume_profiles, the third step of background_processor's cycle:
\* the query of the profiles to resume
ResumeDue(profs, tnow) ==
  {k \in DOMAIN profs : /\ profs[k].status = "paused"
                        /\ profs[k].resume_at # None
                        /\ profs[k].resume_at <= tnow}

\* each of them is made active and an Alert profile_resumed written for it
\* (a cycle that finds none changes nothing)
AutoResumeProfiles ==
  /\ sweep.pc = "idle"
  /\ ResumeDue(profiles, now) # {}
  /\ profiles' = [k \in DOMAIN profiles |->
                    IF k \in ResumeDue(profiles, now)
                      THEN [profiles[k] EXCEPT !.status = "active", !.pause_reason = None,
                                               !.resume_at = None]
                      ELSE profiles[k]]
  /\ resumeAlerts' = Append(resumeAlerts, {profiles[k].id : k \in ResumeDue(profiles, now)})
  /\ UNCHANGED <<now, pkg, queue, messages, reqs, sweep, lastDispatch>>
  /\ UNCHANGED <<routing, lastReply>>
  /\ UNCHANGED <<varsGQ, varsDist, varsRest>>

\* main.py:82: the cycle sleeps and time passes, up to a time something is
\* scheduled for (no horizon: the rows and their retries are finitely many)
Sleep ==
  /\ sweep.pc = "idle"
  /\ \E t \in TickTargets : t # None /\ t > now /\ now' = t
  /\ UNCHANGED <<pkg, profiles, queue, messages, reqs, sweep, lastDispatch>>
  /\ UNCHANGED <<routing, lastReply>>
  /\ UNCHANGED <<resumeAlerts, varsGQ, varsDist, varsRest>>

\* the transport call of the row in hand returns, with whatever outcome
TransportReturns ==
  \/ TransportSuccess
  \/ \E critical \in BOOLEAN : TransportFailure(critical)
  \/ TransportRaises

\* ------------------------------------------------ the processor alone
\* SpecSweep starts the processor on a backlog: one Message whose rows are
\* spread over the two profiles a cooldown apart, some of them not yet due
\* or already sent
MaxBacklog == 11
SweepNow == 1000
BacklogDailyLimit == 120
BacklogCooldown == 60
BacklogSizes == {1, SweepLimit, MaxBacklog}
BacklogPatterns == {"due", "some later", "some sent", "later"}

BacklogItem(j, pattern) ==
  LET sent == pattern = "some sent" /\ j % 4 = 0
      later == pattern = "later" \/ (pattern = "some later" /\ j % 3 = 0)
  IN [message |-> 1, profile |-> MainProfileIds[(j % 2) + 1], recipient |-> j,
      status |-> IF sent THEN "sent" ELSE "waiting",
      at |-> IF later THEN SweepNow + BacklogCooldown * j ELSE SweepNow - BacklogCooldown * j,
      attempt_count |-> IF sent THEN 1 ELSE 0, max_attempts |-> 2, last_error |-> "",
      cd |-> BacklogCooldown, seen |-> 0]

Backlog(n, pattern) == [j \in 1..n |-> BacklogItem(j, pattern)]

InitSweepVars ==
  /\ now = SweepNow
  /\ \E delay \in RetryDelays :
       pkg = [MainPackage("round_robin") EXCEPT !.max_messages_per_day = BacklogDailyLimit,
                                                !.retry_delay_seconds = delay]
  /\ profiles = [k \in DOMAIN MainProfileIds |->
                   [MainProfile(k) EXCEPT !.max_messages_per_day = None]]
  /\ \E n \in BacklogSizes, pattern \in BacklogPatterns :
       /\ queue = Backlog(n, pattern)
       /\ messages = <<[status |-> "queued", total_recipients |-> n,
                        processed_count |->
                          Cardinality({j \in 1..n : BacklogItem(j, pattern).status = "sent"}),
                        success_count |->
                          Cardinality({j \in 1..n : BacklogItem(j, pattern).status = "sent"}),
                        failed_count |-> 0]>>
  /\ reqs = [r \in ReqIds |-> NoRequest]
  /\ sweep = NoSweep
  /\ lastDispatch = NoDispatch
  /\ routing = {}
  /\ lastReply = NoReply
  /\ resumeAlerts = <<>>

\* SpecLive starts the processor on a short backlog
LiveBacklogSizes == {2, 3}

InitLiveVars ==
  /\ now = SweepNow
  /\ pkg = [MainPackage("round_robin") EXCEPT !.max_messages_per_day = BacklogDailyLimit]
  /\ profiles = [k \in DOMAIN MainProfileIds |->
                   [MainProfile(k) EXCEPT !.max_messages_per_day = None]]
  /\ \E n \in LiveBacklogSizes, pattern \in BacklogPatterns :
       /\ queue = Backlog(n, pattern)
       /\ messages = <<[status |-> "queued", total_recipients |-> n,
                        processed_count |->
                          Cardinality({j \in 1..n : BacklogItem(j, pattern).status = "sent"}),
                        success_count |->
                          Cardinality({j \in 1..n : BacklogItem(j, pattern).status = "sent"}),
                        failed_count |-> 0]>>
  /\ reqs = [r \in ReqIds |-> NoRequest]
  /\ sweep = NoSweep
  /\ lastDispatch = NoDispatch
  /\ routing = {}
  /\ lastReply = NoReply
  /\ resumeAlerts = <<>>

\* SpecResume starts it on a backlog of one row
InitOneRowVars ==
  /\ now = SweepNow
  /\ pkg = [MainPackage("round_robin") EXCEPT !.max_messages_per_day = BacklogDailyLimit]
  /\ profiles = [k \in DOMAIN MainProfileIds |->
                   [MainProfile(k) EXCEPT !.max_messages_per_day = None]]
  /\ \E pattern \in BacklogPatterns :
       /\ queue = Backlog(1, pattern)
       /\ messages = <<[status |-> "queued", total_recipients |-> 1, processed_count |-> 0,
                        success_count |-> 0, failed_count |-> 0]>>
  /\ reqs = [r \in ReqIds |-> NoRequest]
  /\ sweep = NoSweep
  /\ lastDispatch = NoDispatch
  /\ routing = {}
  /\ lastReply = NoReply
  /\ resumeAlerts = <<>>

\* ------------------------------------------------------ the reply chat
\* SpecReply starts the processor on a backlog in which both profiles have
\* a due row for each recipient, and lets reply-chat requests arrive at
\* any moment
MaxReplies == 2
ReplyBacklogSizes == {2, 3}
ReplyRecipients == {1, 2}
NoReplyProfile == "No active profile available for reply"

ReplyBacklogItem(j) == [BacklogItem(j, "due") EXCEPT !.recipient = (j + 1) \div 2]

InitReplyVars ==
  /\ now = SweepNow
  /\ pkg = [MainPackage("round_robin") EXCEPT !.max_messages_per_day = BacklogDailyLimit]
  /\ profiles = [k \in DOMAIN MainProfileIds |->
                   [MainProfile(k) EXCEPT !.max_messages_per_day = None]]
  /\ \E n \in ReplyBacklogSizes :
       /\ queue = [j \in 1..n |-> ReplyBacklogItem(j)]
       /\ messages = <<[status |-> "queued", total_recipients |-> n, processed_count |-> 0,
                        success_count |-> 0, failed_count |-> 0]>>
  /\ reqs = [r \in ReqIds |-> NoRequest]
  /\ sweep = NoSweep
  /\ lastDispatch = NoDispatch
  /\ routing = {}
  /\ lastReply = NoReply
  /\ resumeAlerts = <<>>

\* the profiles send_reply_chat can pick for recipient r: the profile of
\* r's routing record, whatever its status; without a record the first
\* active profile by weight_score, highest first (LIMIT 1: of several
\* profiles of the highest weight the database returns any)
ReplyProfiles(rt, profs, r) ==
  IF RoutingFor(rt, r) # ""
    THEN {k \in DOMAIN profs : profs[k].id = RoutingFor(rt, r)}
    ELSE {k \in DOMAIN profs :
            /\ profs[k].status = "active"
            /\ \A j \in DOMAIN profs :
                 profs[j].status = "active" => profs[j].weight_score <= profs[k].weight_score}

\* send_reply_chat for recipient r, the transport answering ok or not: the
\* Message row, the routing record (created if r has none, else pointed to
\* the profile used, which is the one it names), _update_profile_stats.
\* Without a profile the request raises and leaves nothing.
ReplyChat(r, ok) ==
  /\ lastReply.seq < MaxReplies
  /\ IF ReplyProfiles(routing, profiles, r) = {}
       THEN /\ lastReply' = [seq |-> lastReply.seq + 1, recipient |-> r, profile |-> "",
                             ok |-> FALSE, error |-> NoReplyProfile]
            /\ UNCHANGED <<messages, routing, profiles>>
       ELSE \E k \in ReplyProfiles(routing, profiles, r) :
              /\ messages' = Append(messages,
                   [status |-> IF ok THEN "completed" ELSE "failed", total_recipients |-> 1,
                    processed_count |-> 1, success_count |-> IF ok THEN 1 ELSE 0,
                    failed_count |-> IF ok THEN 0 ELSE 1])
              /\ routing' = SetRouting(routing, r, profiles[k].id)
              /\ profiles' = [profiles EXCEPT ![k] = [@ EXCEPT !.sent_today = @ + 1,
                                                               !.sent_hour = @ + 1,
                                                               !.sent_3hours = @ + 1]]
              /\ lastReply' = [seq |-> lastReply.seq + 1, recipient |-> r,
                               profile |-> profiles[k].id, ok |-> ok, error |-> ""]
  /\ UNCHANGED <<now, pkg, queue, reqs, sweep, lastDispatch>>
  /\ UNCHANGED <<resumeAlerts, varsGQ, varsDist, varsRest>>

\* ------------------------------------------------- the send sequence
\* POST /messages/send-sequence (zentra_messages.py).  The requests are
\* coroutines of one event loop: a step is what a request does between
\* two awaits.  chatLocks is _chat_locks, an asyncio.Lock being its locked
\* flag and the queue of its waiters; seqLog is what the transport saw
\* last for each chat_id: the start or the end of a call.
MaxSeqReqs == 3
DELAY_AFTER_TEXT_MS == 2500
DELAY_AFTER_MEDIA_MS == 6000
MAX_DELAY_MS == 15000
SeqPart(type, payload) == [type |-> type, payload |-> payload]
SeqPartLists ==
  <<<<SeqPart("text", "hi")>>,
    <<SeqPart("text", "hi"), SeqPart("image", "http://img")>>,
    <<SeqPart("image", "http://img"), SeqPart("text", " ")>>,
    <<SeqPart("text", ""), SeqPart("video", "http://vid")>>>>

SeqChatOrder == <<"201", "202">>
SeqChatIds == {SeqChatOrder[k] : k \in DOMAIN SeqChatOrder}

NewLock == [locked |-> FALSE, waiters |-> <<>>]

\* the lock table whose lock of chat_id is a new lock at every call
GetChatLockAlwaysNew(locks, chat_id) ==
  [c \in DOMAIN locks \cup {chat_id} |-> IF c = chat_id THEN NewLock ELSE locks[c]]

\* _get_chat_lock: the lock table after the call; the lock is locks'[chat_id]
GetChatLock(locks, chat_id) ==
  IF chat_id \in DOMAIN locks THEN locks
  ELSE [c \in DOMAIN locks \cup {chat_id} |-> IF c = chat_id THEN NewLock ELSE locks[c]]

\* _should_skip_part: the text or the link is missing or blank
ShouldSkipPart(part) == part.payload \in {"", " "}

\* _delay_for_part_type
DelayForPartType(type) ==
  IF type \in {"image", "video"} THEN Min2(DELAY_AFTER_MEDIA_MS, MAX_DELAY_MS)
  ELSE Min2(DELAY_AFTER_TEXT_MS, MAX_DELAY_MS)

\* the first part from position from on that is not skipped, 0 if none
NextPart(parts, from) ==
  IF \E j \in from..Len(parts) : ~ShouldSkipPart(parts[j])
    THEN MinOf({j \in from..Len(parts) : ~ShouldSkipPart(parts[j])})
    ELSE 0

NewSeqRequest(chat_id, parts) ==
  [chat_id |-> chat_id, parts |-> parts, pc |-> "new", idx |-> 0, delay_ms |-> 0,
   successful |-> 0, failed |-> 0]

NoCall == [req |-> 0, part |-> 0, ev |-> "done"]

\* the requests, the same kinds of request one after the other (which
\* request is called 1 and which 2 makes no difference to the handler)
SeqKindOrder ==
  [k \in 1..(Len(SeqChatOrder) * Len(SeqPartLists)) |->
     <<SeqChatOrder[((k - 1) % Len(SeqChatOrder)) + 1],
       SeqPartLists[((k - 1) \div Len(SeqChatOrder)) + 1]>>]

InitChatVars ==
  /\ chatLocks = <<>>
  /\ \E kind \in [1..MaxSeqReqs -> DOMAIN SeqKindOrder] :
       /\ \A q \in 1..(MaxSeqReqs - 1) : kind[q] <= kind[q + 1]
       /\ seqReqs = [q \in 1..MaxSeqReqs |->
                       NewSeqRequest(SeqKindOrder[kind[q]][1], SeqKindOrder[kind[q]][2])]
  /\ seqLog = [c \in SeqChatIds |-> NoCall]

\* Lock.release: the flag is cleared; the first waiter is woken
Release(locks, chat_id) == [locks EXCEPT ![chat_id].locked = FALSE]

\* the loop of send_sequence, by the request q holding the lock, from part
\* from on up to its next await: skipped parts are passed over; either the
\* call of _send_to_zentra for the next part begins, or the loop is over,
\* the lock released and the response returned
Proceed(q, locks, from, log) ==
  LET rq == seqReqs[q]
      j == NextPart(rq.parts, from)
  IN IF j = 0
       THEN [locks |-> Release(locks, rq.chat_id),
             req |-> [rq EXCEPT !.pc = "done", !.idx = 0, !.delay_ms = 0],
             log |-> log]
       ELSE [locks |-> locks,
             req |-> [rq EXCEPT !.pc = "sending", !.idx = j, !.delay_ms = 0],
             log |-> [log EXCEPT ![rq.chat_id] = [req |-> q, part |-> j, ev |-> "start"]]]

\* lines 307-322: the request fetches the lock of its chat_id and enters
\* "async with lock".  Lock.acquire takes a lock that is free and has no
\* waiter at once, and otherwise queues the request behind the waiters.
SeqStart(q) ==
  /\ seqReqs[q].pc = "new"
  /\ LET c == seqReqs[q].chat_id
         locks == GetChatLock(chatLocks, c)
     IN IF ~locks[c].locked /\ locks[c].waiters = <<>>
          THEN LET s == Proceed(q, [locks EXCEPT ![c].locked = TRUE], 1, seqLog)
               IN /\ chatLocks' = s.locks
                  /\ seqReqs' = [seqReqs EXCEPT ![q] = s.req]
                  /\ seqLog' = s.log
          ELSE /\ chatLocks' = [locks EXCEPT ![c].waiters = Append(@, q)]
               /\ seqReqs' = [seqReqs EXCEPT ![q].pc = "waiting"]
               /\ seqLog' = seqLog
  /\ UNCHANGED <<varsCool, varsIso, varsGQ, varsDist, varsMain>>

\* the first waiter of a released lock runs: it takes the lock
SeqWake(q) ==
  /\ seqReqs[q].pc = "waiting"
  /\ LET c == seqReqs[q].chat_id
     IN /\ ~chatLocks[c].locked
        /\ chatLocks[c].waiters # <<>>
        /\ Head(chatLocks[c].waiters) = q
        /\ LET s == Proceed(q, [chatLocks EXCEPT ![c].locked = TRUE,
                                                 ![c].waiters = Tail(@)], 1, seqLog)
           IN /\ chatLocks' = s.locks
              /\ seqReqs' = [seqReqs EXCEPT ![q] = s.req]
              /\ seqLog' = s.log
  /\ UNCHANGED <<varsCool, varsIso, varsGQ, varsDist, varsMain>>

\* lines 346-407: _send_to_zentra returns or raises; the part is counted
\* and, unless it is the last of the list, the request sleeps
SeqReturn(q, ok) ==
  /\ seqReqs[q].pc = "sending"
  /\ LET rq == seqReqs[q]
         is_last == rq.idx = Len(rq.parts)
         delay_ms == IF is_last THEN 0 ELSE DelayForPartType(rq.parts[rq.idx].type)
         log == [seqLog EXCEPT ![rq.chat_id] = [req |-> q, part |-> rq.idx, ev |-> "done"]]
         counted == [rq EXCEPT !.successful = @ + (IF ok THEN 1 ELSE 0),
                               !.failed = @ + (IF ok THEN 0 ELSE 1)]
     IN IF ~is_last /\ delay_ms > 0
          THEN /\ seqReqs' = [seqReqs EXCEPT ![q] = [counted EXCEPT !.pc = "sleeping",
                                                                    !.delay_ms = delay_ms]]
               /\ seqLog' = log
               /\ chatLocks' = chatLocks
          ELSE LET s == Proceed(q, chatLocks, rq.idx + 1, log)
               IN /\ chatLocks' = s.locks
                  /\ seqReqs' = [seqReqs EXCEPT ![q] =
                                   [s.req EXCEPT !.successful = counted.successful,
                                                 !.failed = counted.failed]]
                  /\ seqLog' = s.log
  /\ UNCHANGED <<varsCool, varsIso, varsGQ, varsDist, varsMain>>

\* lines 409-411: asyncio.sleep is over
SeqSleepDone(q) ==
  /\ seqReqs[q].pc = "sleeping"
  /\ LET s == Proceed(q, chatLocks, seqReqs[q].idx + 1, seqLog)
     IN /\ chatLocks' = s.locks
        /\ seqReqs' = [seqReqs EXCEPT ![q] = s.req]
        /\ seqLog' = s.log
  /\ UNCHANGED <<varsCool, varsIso, varsGQ, varsDist, varsMain>>

\* the request is between the first and the last of its transport calls
InSequence(q) == seqReqs[q].pc \in {"sending", "sleeping"}

\* C29: no two requests of one chat_id are inside their sequences at once;
\* a call the transport sees begin for a chat_id begins when no call for
\* that chat_id is in progress, after a call of another request only when
\* that request has left its sequence, and after a call of the same
\* request only for a later part of the list; the call that ends is the
\* one that began.
C29_PerChatLocking ==
  [][/\ \A q1, q2 \in DOMAIN seqReqs :
          (q1 # q2 /\ seqReqs[q1].chat_id = seqReqs[q2].chat_id)
            => ~(InSequence(q1) /\ InSequence(q2))'
     /\ \A c \in SeqChatIds :
          seqLog'[c] # seqLog[c]
            => IF seqLog'[c].ev = "start"
                 THEN /\ seqLog[c].ev = "done"
                      /\ seqLog[c].req = seqLog'[c].req => seqLog[c].part < seqLog'[c].part
                      /\ (seqLog[c].req # seqLog'[c].req /\ seqLog[c].req # 0)
                           => ~InSequence(seqLog[c].req)
                 ELSE /\ seqLog[c].ev = "start"
                      /\ seqLog[c].req = seqLog'[c].req
                      /\ seqLog[c].part = seqLog'[c].part]_vars

\* two requests of different chat_ids are in their transport calls at the
\* same moment, one of them at its second part, while a third request
\* waits for the lock of the first one's chat_id
C29_Witness ==
  \E q1, q2, q3 \in DOMAIN seqReqs :
    /\ seqReqs[q1].chat_id # seqReqs[q2].chat_id
    /\ seqReqs[q1].pc = "sending" /\ seqReqs[q2].pc = "sending"
    /\ seqReqs[q1].idx = 2
    /\ seqReqs[q3].chat_id = seqReqs[q1].chat_id
    /\ seqReqs[q3].pc = "waiting"

\* ------------------------------------------------- two packages
\* SpecIso: the profiles and message_queue tables hold the rows of two
\* packages.  iso.profs and iso.shared are the tables both packages work
\* on; iso.profs0 and iso.alone are the same tables with the first
\* package's requests only.  A request is distribute followed by
\* schedule_recipients, with the cooldown calculate_cooldown gave.
MaxIsoCalls == 2
MaxIsoRecips == 2
IsoNow == 1000
IsoModes == {"round_robin", "random", "smart"}
IsoCooldowns == {60, 120}
IsoProfileOrder == <<"A", "X", "B", "Y">>
IsoPackageOf == [A |-> "G1", B |-> "G1", X |-> "G2", Y |-> "G2"]
IsoProfileIds == {IsoProfileOrder[k] : k \in DOMAIN IsoProfileOrder}

IsoPackage(id, mode) == [id |-> id] @@ DistPackage(mode)

IsoProfile(id, status, sent, last) ==
  [package_id |-> IsoPackageOf[id], last_message_at |-> last]
    @@ DistProfile(id, status, sent, None, <<1, 0>>)

\* the profiles table without the package in the WHERE clause
AllProfiles(profs, package_id) == profs

\* WHERE Profile.package_id == package.id
PackageProfiles(profs, package_id) ==
  SelectSeq(profs, LAMBDA pr : pr.package_id = package_id)

IdsOf(profs) == {profs[k].id : k \in DOMAIN profs}

\* _get_pending_counts(profile_ids)
PendingCountsOf(q, ids) ==
  [id \in ids |-> Cardinality({i \in DOMAIN q : q[i].profile = id /\ q[i].status = "waiting"})]

\* distribute(package, recipients) on the tables profs and q
IsoDistribute(profs, q, package, recips) ==
  LET mine == PackageProfiles(profs, package.id)
  IN DistributeOutcomes(package, mine, PendingCountsOf(q, IdsOf(ActiveOnly(mine))), recips)

\* schedule_recipients(package, message, distribution, cooldown_per_profile)
\* on the tables profs and q: the queue with the new rows
IsoSchedule(profs, q, package, dist, cds, tnow) ==
  LET active == ActiveOnly(PackageProfiles(profs, package.id))
      lastMsg == [id \in IdsOf(profs) |->
                    (CHOOSE pr \in {profs[k] : k \in DOMAIN profs} : pr.id = id).last_message_at]
  IN ScheduleRecipients(q, [k \in DOMAIN active |-> <<active[k].id, dist[k]>>],
                        IdsOf(active), lastMsg, cds, tnow)

\* a request of the package: the queue it leaves, for an outcome of distribute
IsoRequest(profs, q, package, o, cds, tnow) ==
  IF o.error # "" \/ ~o.returns THEN q
  ELSE IsoSchedule(profs, q, package, o.dist, cds, tnow)

\* the rows of a package's profiles, in the order of the table
RowsOf(q, package_id) == SelectSeq(q, LAMBDA row : IsoPackageOf[row.profile] = package_id)

IsoNoCall == [package_id |-> "", shared |-> {}, alone |-> {}, taken |-> <<>>]

InitIsoVars ==
  \E m1 \in IsoModes, cd \in IsoCooldowns,
     prior \in {<<>>, <<PriorItem("A", IsoNow + 30), PriorItem("Y", IsoNow + 45)>>} :
    iso = [now |-> IsoNow,
           pkgs |-> [G1 |-> IsoPackage("G1", m1), G2 |-> IsoPackage("G2", "round_robin")],
           profs |-> [k \in DOMAIN IsoProfileOrder |->
                        IsoProfile(IsoProfileOrder[k],
                                   "active", 0,
                                   IF IsoProfileOrder[k] = "A" THEN IsoNow - 30 ELSE None)],
           profs0 |-> [k \in DOMAIN IsoProfileOrder |->
                        IsoProfile(IsoProfileOrder[k],
                                   "active", 0,
                                   IF IsoProfileOrder[k] = "A" THEN IsoNow - 30 ELSE None)],
           shared |-> prior, alone |-> prior, cooldown |-> cd, calls |-> 0,
           last |-> IsoNoCall]

\* a request of the first package for n recipients: it runs on the shared
\* tables and, with the same draws, on the tables the second package left alone
G1Request(n) ==
  /\ iso.calls < MaxIsoCalls
  /\ LET recips == [i \in 1..n |-> 10 * (iso.calls + 1) + i]
         package == iso.pkgs["G1"]
         outs == IsoDistribute(iso.profs, iso.shared, package, recips)
         outs0 == IsoDistribute(iso.profs0, iso.alone, package, recips)
     IN \E o \in outs :
          LET o0 == IF o \in outs0 THEN o ELSE CHOOSE x \in outs0 : TRUE
              cds == [id \in IsoProfileIds |-> iso.cooldown]
          IN iso' = [iso EXCEPT
                       !.shared = IsoRequest(iso.profs, iso.shared, package, o, cds, iso.now),
                       !.alone = IsoRequest(iso.profs0, iso.alone, package, o0, cds, iso.now),
                       !.calls = @ + 1,
                       !.last = [package_id |-> "G1", shared |-> outs, alone |-> outs0,
                                 taken |-> <<o, o0>>]]
  /\ UNCHANGED <<varsCool, varsChat, varsGQ, varsDist, varsMain>>

\* a request of the second package: the shared tables only
G2Request(n) ==
  /\ iso.calls < MaxIsoCalls
  /\ LET recips == [i \in 1..n |-> 10 * (iso.calls + 1) + i]
         package == iso.pkgs["G2"]
     IN \E o \in IsoDistribute(iso.profs, iso.shared, package, recips) :
          iso' = [iso EXCEPT
                    !.shared = IsoRequest(iso.profs, iso.shared, package, o,
                                          [id \in IsoProfileIds |-> iso.cooldown], iso.now),
                    !.calls = @ + 1,
                    !.last = [IsoNoCall EXCEPT !.package_id = "G2"]]
  /\ UNCHANGED <<varsCool, varsChat, varsGQ, varsDist, varsMain>>

\* toggle_status on a profile of the second package
G2ToggleStatus(k, status) ==
  /\ iso.profs[k].package_id = "G2"
  /\ iso.profs[k].status # status
  /\ iso' = [iso EXCEPT !.profs[k].status = status]
  /\ UNCHANGED <<varsCool, varsChat, varsGQ, varsDist, varsMain>>

\* C23: whatever the second package's requests and status changes did to
\* the shared tables, a request of the first package has the same possible
\* assignments on them as on the tables the second package never touched,
\* and the first package's queue rows (profiles, recipients, slots) are the
\* same in both; a request of one package leaves the rows of the other as
\* they were.
C23_GroupIsolation ==
  [][/\ iso'.last.shared = iso'.last.alone
     /\ RowsOf(iso'.shared, "G1") = RowsOf(iso'.alone, "G1")
     /\ iso'.last.package_id = "G1" => RowsOf(iso'.shared, "G2") = RowsOf(iso.shared, "G2")
     /\ iso'.last.package_id = "G2" => RowsOf(iso'.shared, "G1") = RowsOf(iso.shared, "G1")]_vars

\* the first package has queued rows for both its profiles, with slots
\* after now, on tables to which the second package had added rows and on
\* which it had paused a profile
C23_Witness ==
  /\ iso.last.package_id = "G1"
  /\ iso.last.taken[1].error = ""
  /\ \E k \in DOMAIN iso.profs : iso.profs[k].status = "paused"
  /\ \E x, i, j \in DOMAIN iso.shared :
       /\ x < i /\ i < j
       /\ iso.shared[x].new /\ IsoPackageOf[iso.shared[x].profile] = "G2"
       /\ iso.shared[i].new /\ iso.shared[i].profile = "A"
       /\ iso.shared[j].new /\ iso.shared[j].profile = "B"
       /\ iso.shared[j].at > iso.now

\* ------------------------------------------------ scheduled messages
\* POST /messages/schedule and the second step of background_processor's
\* cycle (scheduling_service.py).  A scheduled Message carries its
\* recipients and scheduled_at until process_scheduled_messages queues it.
ScheduleDelays == {10, 20}
DripIntervalMinutes == 30
ScheduledLimit == 5

ScheduledMessage(recipients, scheduled_at) ==
  [status |-> "scheduled", total_recipients |-> Len(recipients), processed_count |-> 0,
   success_count |-> 0, failed_count |-> 0,
   recipients |-> recipients, scheduled_at |-> scheduled_at]

\* schedule_message for n recipients, delay seconds ahead (a scheduled_at
\* that is not after now is refused): one Message for all recipients, or
\* in drip mode one per recipient, drip_interval_minutes apart
ScheduleMessage(n, delay, drip_mode) ==
  /\ delay > 0
  /\ Len(messages) + Cardinality({x \in ReqIds : reqs[x].pc = "flushed"})
       + (IF drip_mode /\ n > 1 THEN n ELSE 1) <= MaxMessages
  /\ LET recipients == [i \in 1..n |-> i]
         scheduled_at == now + delay
     IN messages' =
          IF drip_mode /\ n > 1
            THEN messages \o [i \in 1..n |->
                   ScheduledMessage(<<recipients[i]>>,
                                    scheduled_at + DripIntervalMinutes * 60 * (i - 1))]
            ELSE Append(messages, ScheduledMessage(recipients, scheduled_at))
  /\ UNCHANGED <<now, pkg, profiles, queue, reqs, sweep, lastDispatch>>
  /\ UNCHANGED <<routing, lastReply>>
  /\ UNCHANGED <<resumeAlerts, varsGQ, varsDist, varsRest>>

\* the query of process_scheduled_messages: scheduled and due
DueScheduled(msgs, tnow) ==
  {m \in DOMAIN msgs : msgs[m].status = "scheduled" /\ msgs[m].scheduled_at <= tnow}

\* ORDER BY scheduled_at LIMIT 5: messages of equal time in any order
RECURSIVE ScheduledOrders(_, _)
ScheduledOrders(msgs, S) ==
  IF S = {} THEN {<<>>}
  ELSE LET earliest == MinOf({msgs[m].scheduled_at : m \in S})
       IN UNION {{<<m>> \o rest : rest \in ScheduledOrders(msgs, S \ {m})} :
                   m \in {x \in S : msgs[x].scheduled_at = earliest}}

\* the reference point taken from the message's scheduled_at
ScheduledBaseTimePlanned(message, tnow) == message.scheduled_at

\* line 159: base_time = datetime.now(timezone.utc)
ScheduledBaseTime(message, tnow) == tnow

\* lines 161-186: the rows for one message, profile by profile in the
\* order of the distribution, the i-th recipient of a profile cooldown * i
\* after base_time
RECURSIVE ScheduledItems(_, _, _, _, _, _, _)
ScheduledItems(q, m, pws, dist, cds, k, base_time) ==
  IF k > Len(pws) THEN <<>>
  ELSE [j \in DOMAIN dist[k] |->
          [OpenChatItem(pws[k], dist[k][j], base_time, cds[pws[k].id], j - 1, Len(q))
             EXCEPT !.message = m]]
       \o ScheduledItems(q, m, pws, dist, cds, k + 1, base_time)

\* lines 124-197 for one message: distribute raising marks it failed,
\* otherwise it is queued with its rows
ScheduledOne(st, m, o, cds, tnow) ==
  IF o.error # ""
    THEN [st EXCEPT !.messages[m].status = "failed"]
    ELSE [st EXCEPT !.messages[m].status = "queued",
                    !.queue = @ \o ScheduledItems(st.queue, m, ActiveOnly(profiles), o.dist,
                                                  cds, 1,
                                                  ScheduledBaseTime(st.messages[m], tnow))]

\* the loop over the batch: each message is distributed on the queue as
\* the messages before it left it
RECURSIVE ScheduledLoop(_, _, _, _)
ScheduledLoop(st, order, cds, tnow) ==
  IF order = <<>> THEN {st}
  ELSE LET m == Head(order)
           outs == {o \in DistributeOutcomes(pkg, profiles, PendingCounts(st.queue),
                                             st.messages[m].recipients) :
                      o.error # "" \/ o.returns}
       IN UNION {ScheduledLoop(ScheduledOne(st, m, o, cds, tnow), Tail(order), cds, tnow) :
                   o \in outs}

\* process_scheduled_messages, as the background cycle runs it between two sweeps
ProcessScheduledMessages ==
  /\ sweep.pc = "idle"
  /\ DueScheduled(messages, now) # {}
  /\ \E order \in ScheduledOrders(messages, DueScheduled(messages, now)),
        cds \in [{profiles[k].id : k \in DOMAIN profiles} -> MainCooldowns] :
       \E st \in ScheduledLoop([messages |-> messages, queue |-> queue],
                               FirstRows(order, ScheduledLimit), cds, now) :
         /\ Len(st.queue) + InFlight <= MaxQueue
         /\ messages' = st.messages
         /\ queue' = st.queue
  /\ UNCHANGED <<now, pkg, profiles, reqs, sweep, lastDispatch>>
  /\ UNCHANGED <<routing, lastReply>>
  /\ UNCHANGED <<resumeAlerts, varsGQ, varsDist, varsRest>>

\* time passes, up to the scheduled_at of a scheduled message
TickScheduled ==
  /\ \E m \in DOMAIN messages :
       /\ messages[m].status = "scheduled"
       /\ messages[m].scheduled_at > now
       /\ messages[m].scheduled_at <= MaxTime
       /\ now' = messages[m].scheduled_at
  /\ UNCHANGED <<pkg, profiles, queue, messages, reqs, sweep, lastDispatch>>
  /\ UNCHANGED <<routing, lastReply>>
  /\ UNCHANGED <<resumeAlerts, varsGQ, varsDist, varsRest>>

\* the service is running (in a run of the global queue alone it is not)
Running == reqs # <<>>

\* DELETE /messages/{id}/cancel.  The request works in a session of its
\* own: CancelScheduledSelect is its query (lines 225-233), which sees what
\* is committed; CancelScheduledCommit is the UPDATE of the row the query
\* returned, by its primary key, and the commit of the session.
NotScheduledError == "Scheduled message not found or already processed"

CancelRequest(m) ==
  [pc |-> "cancelling", error |-> "", total |-> 0, items |-> <<>>, seen |-> 0,
   immediate |-> NoRequest.immediate, message |-> m]

\* lines 225-231: the Message of that id that is in status scheduled
CancelFinds(msgs, m) == m \in DOMAIN msgs /\ msgs[m].status = "scheduled"

CancelScheduledSelect(r, m) ==
  /\ reqs[r].pc = "idle"
  /\ \A other \in ReqIds : other < r => reqs[other].pc # "idle"
  /\ reqs' = [reqs EXCEPT ![r] =
       IF CancelFinds(messages, m) THEN CancelRequest(m) ELSE RolledBack(NotScheduledError)]
  /\ UNCHANGED <<now, pkg, profiles, queue, messages, sweep, lastDispatch>>
  /\ UNCHANGED <<routing, lastReply>>
  /\ UNCHANGED <<resumeAlerts, varsGQ, varsDist, varsRest>>

\* lines 235-237 and the commit of get_db
CancelScheduledCommit(r) ==
  /\ reqs[r].pc = "cancelling"
  /\ messages' = [messages EXCEPT ![reqs[r].message] = [@ EXCEPT !.status = "cancelled"]]
  /\ reqs' = [reqs EXCEPT ![r] = NoRequest]
  /\ UNCHANGED <<now, pkg, profiles, queue, sweep, lastDispatch>>
  /\ UNCHANGED <<routing, lastReply>>
  /\ UNCHANGED <<resumeAlerts, varsGQ, varsDist, varsRest>>

\* C21: every queue row is created with a scheduled_send_at that is not
\* before the clock of the call creating it: the rows a send_open_chat
\* request flushes, the rows process_scheduled_messages adds, and the rows
\* schedule_recipients adds through get_global_next_slot.
C21_NeverInThePast ==
  [][/\ \A r \in DOMAIN reqs :
          (reqs[r].pc = "idle" /\ reqs'[r].pc = "flushed")
            => \A j \in DOMAIN reqs'[r].items : reqs'[r].items[j].at >= now
     /\ (\A r \in DOMAIN reqs : reqs'[r] = reqs[r])
          => \A i \in (Len(queue) + 1)..Len(queue') : queue'[i].at >= now
     /\ \A i \in (Len(gBatchQ) + 1)..Len(gBatchQ') : gBatchQ'[i].at >= gNow
     /\ \A i \in (Len(gSingleQ) + 1)..Len(gSingleQ') : gSingleQ'[i].at >= gNow]_vars

\* a scheduled message was queued after its scheduled_at had passed, its
\* row waiting at the time of the cycle that queued it, next to the row of
\* another message
C21_Witness ==
  /\ Running
  /\ \E m \in DOMAIN messages :
       /\ messages[m].status = "queued"
       /\ "scheduled_at" \in DOMAIN messages[m]
       /\ messages[m].scheduled_at < now
       /\ \E i \in DOMAIN queue : queue[i].message = m /\ queue[i].at = now
  /\ \E i, j \in DOMAIN queue : queue[i].message # queue[j].message

\* --------------------------------------------------------------- claims
Gap(a, b) == IF a >= b THEN a - b ELSE b - a

\* a request's session commits
Commits(r) == reqs[r].pc = "flushed" /\ reqs'[r].pc = "idle"

\* two waiting rows of one profile that no attempt has rescheduled
Unattempted(i, j) ==
  /\ i < j
  /\ queue[i].profile = queue[j].profile
  /\ queue[i].status = "waiting" /\ queue[j].status = "waiting"
  /\ queue[i].attempt_count = 0 /\ queue[j].attempt_count = 0

\* C2: in every reachable state, two waiting rows of one profile lie at
\* least as far apart as the cooldown used when the later of them was
\* scheduled, the earlier being a row of the same request or one the later
\* row's request found in the queue.
C2_ProfileSpacing ==
  \A i, j \in DOMAIN queue :
    (/\ Unattempted(i, j)
     /\ (queue[i].message = queue[j].message \/ i <= queue[j].seen))
      => Gap(queue[i].at, queue[j].at) >= queue[j].cd

\* sent_today + waiting rows <= effective daily limit, for every profile
Capacity ==
  \A k \in DOMAIN profiles :
    profiles[k].sent_today + PendingCounts(queue)[profiles[k].id]
      <= DailyLimit(profiles[k], pkg.max_messages_per_day)

\* C4: after every successful distribution, concurrent requests included,
\* every profile has sent_today + waiting rows <= its effective daily limit.
C4_CapacityAfterDistribution ==
  [][(\E r \in ReqIds : Commits(r)) => Capacity']_vars

\* C6: two scheduling calls that overlap do not collide: the waiting rows
\* of a profile that one of them committed before the other had committed,
\* and after the other had read the queue, lie at least the cooldown apart
\* from the other's rows.
C6_ConcurrentScheduling ==
  \A i, j \in DOMAIN queue :
    (/\ Unattempted(i, j)
     /\ queue[i].message # queue[j].message
     /\ i > queue[j].seen)
      => Gap(queue[i].at, queue[j].at) >= queue[j].cd

\* C7: a row's attempt_count never exceeds its max_attempts; a row the
\* transport failed is failed only with attempt_count = max_attempts and
\* waits for a retry only with attempt_count < max_attempts.
C7_RetryBound ==
  \A i \in DOMAIN queue :
    /\ queue[i].attempt_count <= queue[i].max_attempts
    /\ (queue[i].status = "failed" /\ queue[i].last_error = TransportError)
         => queue[i].attempt_count = queue[i].max_attempts
    /\ (queue[i].status = "waiting" /\ queue[i].last_error = TransportError)
         => queue[i].attempt_count < queue[i].max_attempts

\* the status changes of the state machine; the cancellation of a waiting
\* row, which the spec's cancellation section describes, is admitted too
StatusSteps ==
  {<<"waiting", "processing">>, <<"waiting", "cancelled">>,
   <<"processing", "sent">>, <<"processing", "waiting">>,
   <<"processing", "failed">>, <<"processing", "cancelled">>}

\* C8: a row's status changes only along waiting -> processing ->
\* {sent, waiting, failed, cancelled} (or by a cancellation of a waiting
\* row), and a sent or failed row never changes status again.
C8_StatusMachine ==
  [][\A i \in DOMAIN queue :
       queue'[i].status # queue[i].status
         => <<queue[i].status, queue'[i].status>> \in StatusSteps]_vars

\* C9: a row handed to the transport was waiting and due when its sweep
\* started, is not sent before its scheduled_send_at, and is at most the
\* tenth dispatch of its sweep.
C9_DispatchOnlyDue ==
  lastDispatch.item # 0 =>
    /\ lastDispatch.item \in sweep.due
    /\ lastDispatch.scheduled <= lastDispatch.at
    /\ lastDispatch.dispatched <= SweepLimit

\* C16: a row the transport failed with attempts left is waiting again at
\* the time of the attempt + the package's retry_delay_seconds *
\* 2^attempt_count, with the error recorded.
C16_RetryBackoff ==
  (lastDispatch.item # 0 /\ queue[lastDispatch.item].status = "waiting")
    => /\ queue[lastDispatch.item].at =
            lastDispatch.at + pkg.retry_delay_seconds * Pow2(queue[lastDispatch.item].attempt_count)
       /\ queue[lastDispatch.item].last_error = TransportError

\* C17: the row being processed whose profile is not active becomes failed
\* with the profile-unavailable error, without a transport call, and
\* nothing else changes: not another row, not the rest of the batch, not the
\* profiles and their statistics, not the message counters.
C17_UnavailableFailsOnlyItem ==
  [][(sweep.pc = "running" /\ sweep.cur # 0
        /\ profiles[IdxOf(queue[sweep.cur].profile)].status # "active")
      => /\ queue'[sweep.cur] = [queue[sweep.cur] EXCEPT !.status = "failed",
                                                         !.last_error = ProfileNotAvailable]
         /\ \A i \in DOMAIN queue : i # sweep.cur => queue'[i] = queue[i]
         /\ DOMAIN queue' = DOMAIN queue
         /\ profiles' = profiles /\ messages' = messages
         /\ lastDispatch' = lastDispatch /\ lastDispatch.item = 0
         /\ sweep'.items = sweep.items /\ sweep'.pc = "running"]_vars

\* a row has failed for its paused profile in a sweep that has dispatched
\* before it and has rows still to visit
C17_Witness ==
  /\ sweep.pc = "running" /\ sweep.cur = 0 /\ sweep.items # <<>>
  /\ sweep.dispatched > 0
  /\ lastDispatch.item = 0
  /\ \E i \in DOMAIN queue :
       /\ queue[i].status = "failed" /\ queue[i].last_error = ProfileNotAvailable
       /\ profiles[IdxOf(queue[i].profile)].status = "paused"

\* C18: a failure while one row is processed does not end the sweep: a
\* sweep ends only when every row of its batch has been processed, and a
\* row's recorded outcome (sent or failed) stays.
C18_SweepNeverAborts ==
  [][/\ (sweep.pc = "running" /\ sweep'.pc = "idle") => (sweep.items = <<>> /\ sweep.cur = 0)
     /\ \A i \in DOMAIN queue :
          queue[i].status \in {"sent", "failed"} => queue'[i].status = queue[i].status]_vars

\* C19: cancelling queued work removes no row, leaves the
\* scheduled_send_at of every row as it is, and changes no status but
\* waiting to cancelled (checked where scheduling and cancelling are the
\* only operations on the queue).
C19_CancelKeepsRows ==
  [][\A i \in DOMAIN queue :
       /\ i \in DOMAIN queue'
       /\ queue'[i].at = queue[i].at
       /\ queue'[i].status # queue[i].status
            => (queue[i].status = "waiting" /\ queue'[i].status = "cancelled")]_vars

SentNow(i) == queue[i].status = "processing" /\ queue'[i].status = "sent"

C9_Witness ==
  /\ lastDispatch.dispatched = SweepLimit
  /\ Cardinality(sweep.due) > SweepLimit

C33_CancelledNeverQueued ==
  \A m \in DOMAIN messages :
    messages[m].status = "cancelled"
      => \A i \in DOMAIN queue : queue[i].message # m

\* C34: with the cycle running again and again, time passing and every
\* transport call returning, from some time on every row of the queue is
\* sent, failed or cancelled: no row stays waiting or processing forever.
C34_EveryItemEnds ==
  <>[](\A i \in DOMAIN queue : queue[i].status \in {"sent", "failed", "cancelled"})

\* C35: a row the transport has accepted is recorded as sent and stays
\* sent, whatever happens later in the cycle: it is never waiting again, so
\* no later sweep selects it and delivers it a second time.
C35_SentIsFinal ==
  [][\A i \in DOMAIN queue :
       queue[i].status = "sent" => (i \in DOMAIN queue' /\ queue'[i].status = "sent")]_vars

\* C36: a Message is completed only when each of its rows is sent, failed
\* or cancelled; an attempt that puts its row back to waiting for a retry
\* does not count as a processed recipient.
C36_CompletedMeansDone ==
  \A m \in DOMAIN messages :
    messages[m].status = "completed"
      => \A i \in DOMAIN queue :
           queue[i].message = m => queue[i].status \in {"sent", "failed", "cancelled"}

\* every row of Message m has ended and m is still queued
AllItemsEnded(m) ==
  /\ m \in DOMAIN messages
  /\ messages[m].status = "queued"
  /\ \E i \in DOMAIN queue : queue[i].message = m
  /\ \A i \in DOMAIN queue :
       queue[i].message = m => queue[i].status \in {"sent", "failed", "cancelled"}

\* C37: a queued Message whose rows have all ended as sent, failed or
\* cancelled is eventually completed, also when rows were failed because
\* their profile was not available or cancelled by an auto-pause.
C37_EndedMeansCompleted ==
  \A m \in 1..MaxMessages :
    AllItemsEnded(m) ~> (m \in DOMAIN messages /\ messages[m].status = "completed")

\* C39: auto_resume_profiles makes a profile active only if the profile is
\* paused by auto-pause at that moment and its resume_at has passed: a
\* profile a user has set to paused or inactive by hand is not resumed,
\* whatever auto-pauses, manual changes and resume sweeps came before.
C39_OnlyAutoPausedResumed ==
  [][\A k \in DOMAIN profiles :
       (/\ Len(resumeAlerts') > Len(resumeAlerts)
        /\ profiles[k].status # "active"
        /\ profiles'[k].status = "active")
         => /\ profiles[k].status = "paused"
            /\ profiles[k].pause_reason = AutoPausedReason
            /\ profiles[k].resume_at # None
            /\ profiles[k].resume_at <= now]_vars

\* C40: a step that hands a message to the transport does so through a
\* profile whose status is active at that moment, be it the dispatch of a
\* queue row by the processor or a reply-chat send, the latter also when it
\* follows a routing record.
C40_DispatchThroughActive ==
  [][/\ (sweep.cur # 0 /\ sweep'.dispatched > sweep.dispatched)
          => profiles[IdxOf(queue[sweep.cur].profile)].status = "active"
     /\ (lastReply'.seq # lastReply.seq /\ lastReply'.profile # "")
          => \A k \in DOMAIN profiles :
               profiles[k].id = lastReply'.profile => profiles[k].status = "active"]_vars

\* C32: a profile that block detection has paused (paused, with the
\* resume_at the auto-pause gave it) has no waiting row, from the step that
\* paused it until it is active again.
C32_AutoPausedHasNoWaiting ==
  \A k \in DOMAIN profiles :
    (profiles[k].status = "paused" /\ profiles[k].resume_at # None)
      => \A i \in DOMAIN queue :
           queue[i].profile = profiles[k].id => queue[i].status # "waiting"


\* ------------------------------------------------------- specifications
\* the variables of a machine that is not running
IdleGQ ==
  /\ gNow = 0 /\ gActive = {} /\ gLastMsg = <<>> /\ gCd = <<>> /\ gDist = <<>>
  /\ gBatchQ = <<>> /\ gSingleQ = <<>> /\ gTodo = <<>> /\ gBatchDone = TRUE

IdleDist == dIn = <<>> /\ dOut = DistNotCalled /\ dSeq = SeqNotStarted

IdleCool == cIn = <<>> /\ cOut = <<>>
IdleIso == iso = <<>>
IdleChat == chatLocks = <<>> /\ seqReqs = <<>> /\ seqLog = <<>>
IdleRest == IdleCool /\ IdleIso /\ IdleChat

IdleMain ==
  /\ now = 0 /\ pkg = <<>> /\ profiles = <<>> /\ queue = <<>> /\ messages = <<>>
  /\ reqs = <<>> /\ sweep = <<>> /\ lastDispatch = <<>>
  /\ routing = {} /\ lastReply = <<>> /\ resumeAlerts = <<>>

InitGQ == InitGQVars /\ IdleDist /\ IdleMain /\ IdleRest
NextGQ == BatchRequest \/ SingleRequest
SpecGQ == InitGQ /\ [][NextGQ]_vars

InitDist == InitDistVars /\ IdleGQ /\ IdleMain /\ IdleRest
NextDist == \E mode \in Modes : DistributeCall(mode)
SpecDist == InitDist /\ [][NextDist]_vars

InitSeq == InitSeqVars /\ IdleGQ /\ IdleMain /\ IdleRest
NextSeq == (\E mode \in Modes : DistributeCall(mode)) \/ SequentialRequest
SpecSeq == InitSeq /\ [][NextSeq]_vars


InitCool == InitCoolVars /\ IdleGQ /\ IdleDist /\ IdleMain /\ IdleIso /\ IdleChat
NextCool == CooldownCall
SpecCool == InitCool /\ [][NextCool]_vars

InitMain == IdleGQ /\ IdleDist /\ InitMainVars /\ IdleRest

Next ==
  \/ \E r \in ReqIds, n \in 1..MaxReqRecips, imm \in ImmediateChoices : OpenChatBegin(r, n, imm)
  \/ \E r \in ReqIds : OpenChatCommit(r)
  \/ SweepStart
  \/ MarkProcessing
  \/ ProfileUnavailable
  \/ TransportSuccess
  \/ \E critical \in BOOLEAN : TransportFailure(critical)
  \/ SweepEnd
  \/ \E ra \in RetryChoices : UpdatePackage(ra)
  \/ \E k \in DOMAIN MainProfileIds, st \in {"active", "paused"} : ToggleStatus(k, st)
  \/ Tick

Spec == InitMain /\ [][Next]_vars


InitSweep == IdleGQ /\ IdleDist /\ InitSweepVars /\ IdleRest

NextSweep ==
  \/ SweepStart
  \/ MarkProcessing
  \/ ProfileUnavailable
  \/ TransportSuccess
  \/ \E critical \in BOOLEAN : TransportFailure(critical)
  \/ SweepEnd

SpecSweep == InitSweep /\ [][NextSweep]_vars

NextAbort == NextSweep \/ TransportRaises
SpecAbort == InitSweep /\ [][NextAbort]_vars

NextSend ==
  \/ \E r \in ReqIds, n \in 1..MaxReqRecips, imm \in BOOLEAN : OpenChatBegin(r, n, imm)
  \/ \E r \in ReqIds : OpenChatCommit(r)
  \/ \E k \in DOMAIN MainProfileIds, st \in {"active", "paused"} : ToggleStatus(k, st)
  \/ Tick

SpecSend == InitMain /\ [][NextSend]_vars

NextCancel == NextSend \/ DeleteAllQueueItems
SpecCancel == InitMain /\ [][NextCancel]_vars

\* every path that creates queue rows: a run of the global queue alone, or
\* the service with its requests and its scheduler
InitCreate == InitGQ \/ InitMain

NextCreate ==
  \/ BatchRequest
  \/ SingleRequest
  \/ \E r \in ReqIds, n \in 1..MaxReqRecips, imm \in BOOLEAN :
       Running /\ OpenChatBegin(r, n, imm)
  \/ \E r \in ReqIds : Running /\ OpenChatCommit(r)
  \/ \E n \in 1..MaxReqRecips, delay \in ScheduleDelays, drip_mode \in BOOLEAN :
       Running /\ ScheduleMessage(n, delay, drip_mode)
  \/ Running /\ ProcessScheduledMessages
  \/ Running /\ TickScheduled
  \/ Running /\ Tick

SpecCreate == InitCreate /\ [][NextCreate]_vars

InitIso == InitIsoVars /\ IdleGQ /\ IdleDist /\ IdleMain /\ IdleCool /\ IdleChat

NextIso ==
  \/ \E n \in 1..MaxIsoRecips : G1Request(n)
  \/ \E n \in 1..MaxIsoRecips : G2Request(n)
  \/ \E k \in DOMAIN IsoProfileOrder : G2ToggleStatus(k, "paused")

SpecIso == InitIso /\ [][NextIso]_vars

InitChat == InitChatVars /\ IdleGQ /\ IdleDist /\ IdleMain /\ IdleCool /\ IdleIso

NextChat ==
  \E q \in 1..MaxSeqReqs :
    \/ SeqStart(q)
    \/ SeqWake(q)
    \/ \E ok \in BOOLEAN : SeqReturn(q, ok)
    \/ SeqSleepDone(q)

SpecChat == InitChat /\ [][NextChat]_vars

InitReply == IdleGQ /\ IdleDist /\ InitReplyVars /\ IdleRest

NextReply ==
  \/ NextSweep
  \/ \E r \in ReplyRecipients, ok \in BOOLEAN : ReplyChat(r, ok)
  \/ \E k \in DOMAIN MainProfileIds : ToggleStatus(k, "paused")

SpecReply == InitReply /\ [][NextReply]_vars

\* the scheduler and the requests that schedule and cancel
NextSchedule ==
  \/ \E n \in 1..MaxReqRecips, delay \in ScheduleDelays, drip_mode \in BOOLEAN :
       ScheduleMessage(n, delay, drip_mode)
  \/ \E r \in ReqIds, m \in 1..MaxMessages : CancelScheduledSelect(r, m)
  \/ \E r \in ReqIds : CancelScheduledCommit(r)
  \/ ProcessScheduledMessages
  \/ TickScheduled

SpecSchedule == InitMain /\ [][NextSchedule]_vars

\* the processor on its backlog with time passing, under the scheduling of
\* background_processor: an idle processor starts its next cycle, a cycle
\* goes on to its next row and to its end, a transport call returns, and
\* the clock reaches every scheduled time
NextLive ==
  \/ SweepStart
  \/ MarkProcessing
  \/ ProfileUnavailable
  \/ TransportReturns
  \/ SweepEnd
  \/ Sleep

FairLive ==
  /\ WF_vars(SweepStart) /\ WF_vars(MarkProcessing) /\ WF_vars(ProfileUnavailable)
  /\ WF_vars(TransportReturns) /\ WF_vars(SweepEnd) /\ WF_vars(Sleep)

InitLive == IdleGQ /\ IdleDist /\ InitLiveVars /\ IdleRest
InitOneRow == IdleGQ /\ IdleDist /\ InitOneRowVars /\ IdleRest
SpecLive == InitLive /\ [][NextLive]_vars /\ FairLive

\* the same with cycles that run to their end
NextLiveSweep == NextSweep \/ Sleep

FairLiveSweep ==
  /\ WF_vars(SweepStart) /\ WF_vars(MarkProcessing) /\ WF_vars(ProfileUnavailable)
  /\ WF_vars(TransportSuccess \/ \E critical \in BOOLEAN : TransportFailure(critical))
  /\ WF_vars(SweepEnd) /\ WF_vars(Sleep)

SpecLiveSweep == InitLive /\ [][NextLiveSweep]_vars /\ FairLiveSweep

\* the processor with auto-resume and a user who changes profile statuses
\* (time is followed up to ResumeHorizon, past the first resume_at)
ResumeHorizon == 9000

NextResume ==
  \/ NextSweep
  \/ (Sleep /\ now' <= ResumeHorizon)
  \/ AutoResumeProfiles
  \/ \E k \in DOMAIN MainProfileIds, st \in {"active", "paused", "inactive"} :
       ToggleStatus(k, st)

SpecResume == InitOneRow /\ [][NextResume]_vars

====
